---- MODULE Spec2Model ----
(***************************************************************************)
(* School-records management: entity model (person.py, student.py,        *)
(* instructor.py, course.py), validation (validators.py), JSON            *)
(* persistence (data_manager.py), relational persistence                  *)
(* (database_manager.py) and the Tk form handlers that drive the          *)
(* in-memory collections (tk_forms/*.py).                                  *)
(*                                                                         *)
(* Python strings are sequences of one-character strings, so that strip,  *)
(* isalpha, int() and the email pattern are computed, not assumed.        *)
(* A Python value whose type the code does not fix (an age, an id, a JSON *)
(* value) is a tagged tuple: <<"str", s>>, <<"int", n>>, <<"none">>,      *)
(* <<"list", seq>>, <<"dict", pairs>>.                                     *)
(***************************************************************************)
EXTENDS Integers, Sequences, FiniteSets, Bags, TLC

VARIABLES last, file, coll, db, students, instructors, courses, heap, disk, steps, conns

vars == <<last, file, coll, db, students, instructors, courses, heap, disk, steps, conns>>

-----------------------------------------------------------------------------
(* Characters and strings *)

Upper == {"A","B","C","D","E","F","G","H","I","J","K","L","M",
          "N","O","P","Q","R","S","T","U","V","W","X","Y","Z"}

Lower == {"a","b","c","d","e","f","g","h","i","j","k","l","m",
          "n","o","p","q","r","s","t","u","v","w","x","y","z"}

Letters == Upper \cup Lower

Digits == {"0","1","2","3","4","5","6","7","8","9"}

Whitespace == {" ", "\t", "\n"}

\* str.strip(): drop leading and trailing whitespace
RECURSIVE LStrip(_)
LStrip(s) == IF s # << >> /\ Head(s) \in Whitespace THEN LStrip(Tail(s)) ELSE s

RECURSIVE RStrip(_)
RStrip(s) == IF s # << >> /\ s[Len(s)] \in Whitespace
             THEN RStrip(SubSeq(s, 1, Len(s) - 1)) ELSE s

Strip(s) == RStrip(LStrip(s))

\* str.isalpha(): at least one character and every character a letter
IsAlpha(s) == s # << >> /\ \A i \in 1..Len(s) : s[i] \in Letters

DigitVal(c) == CASE c = "0" -> 0 [] c = "1" -> 1 [] c = "2" -> 2 [] c = "3" -> 3
                 [] c = "4" -> 4 [] c = "5" -> 5 [] c = "6" -> 6 [] c = "7" -> 7
                 [] c = "8" -> 8 [] c = "9" -> 9

DigitChar(n) == CASE n = 0 -> "0" [] n = 1 -> "1" [] n = 2 -> "2" [] n = 3 -> "3"
                  [] n = 4 -> "4" [] n = 5 -> "5" [] n = 6 -> "6" [] n = 7 -> "7"
                  [] n = 8 -> "8" [] n = 9 -> "9"

RECURSIVE DigitsToNat(_)
DigitsToNat(s) == IF s = << >> THEN 0
                  ELSE 10 * DigitsToNat(SubSeq(s, 1, Len(s) - 1)) + DigitVal(s[Len(s)])

RECURSIVE NatToDigits(_)
NatToDigits(n) == IF n < 10 THEN <<DigitChar(n)>>
                  ELSE NatToDigits(n \div 10) \o <<DigitChar(n % 10)>>

\* the element of a one-element set; {e(x) : x \in {v}} is e with x bound to
\* the value of v, computed once
Only(S) == CHOOSE x \in S : TRUE

\* int(s) for a string: surrounding whitespace ignored, optional sign, digits
ParseInt(s) ==
    Only({ LET signed == t # << >> /\ Head(t) \in {"+", "-"}
               body == IF signed THEN Tail(t) ELSE t
               good == body # << >> /\ \A i \in 1..Len(body) : body[i] \in Digits
           IN  IF good
               THEN [ok |-> TRUE,
                     n |-> IF signed /\ Head(t) = "-" THEN 0 - DigitsToNat(body)
                           ELSE DigitsToNat(body)]
               ELSE [ok |-> FALSE, n |-> 0]
           : t \in {Strip(s)} })

-----------------------------------------------------------------------------
(* Python values *)

PyStr(s) == <<"str", s>>
PyInt(n) == <<"int", n>>
PyNone == <<"none">>
PyList(xs) == <<"list", xs>>
PyDict(pairs) == <<"dict", pairs>>

Tag(v) == v[1]

\* truthiness of a value, as used by "if not x"
Truthy(v) == CASE Tag(v) = "none" -> FALSE
               [] Tag(v) = "str" -> v[2] # << >>
               [] Tag(v) = "int" -> v[2] # 0
               [] Tag(v) = "list" -> v[2] # << >>
               [] Tag(v) = "dict" -> v[2] # << >>

\* str(v) for the values an identifier can take
Str(v) == CASE Tag(v) = "str" -> v[2]
            [] Tag(v) = "none" -> <<"N","o","n","e">>
            [] Tag(v) = "int" -> IF v[2] < 0 THEN <<"-">> \o NatToDigits(0 - v[2])
                                 ELSE NatToDigits(v[2])

\* outcome of a call: a returned value or a raised exception
Ok(v) == [ok |-> TRUE, exc |-> "", msg |-> "", val |-> v]
Raise(e, m) == [ok |-> FALSE, exc |-> e, msg |-> m, val |-> PyNone]

-----------------------------------------------------------------------------
(* Dictionaries: a "dict" value holds its items as <<key, value>> pairs in  *)
(* insertion order                                                          *)

Keys(d) == {d[2][i][1] : i \in 1..Len(d[2])}

DictHas(d, k) == k \in Keys(d)

KeyIndex(d, k) == CHOOSE i \in 1..Len(d[2]) : d[2][i][1] = k

\* d[k] for a key d has
DictAt(d, k) == d[2][KeyIndex(d, k)][2]

\* d.get(k, default)
DictGetD(d, k, default) == IF DictHas(d, k) THEN DictAt(d, k) ELSE default

\* d.get(k)
DictGet(d, k) == DictGetD(d, k, PyNone)

-----------------------------------------------------------------------------
(* person.py *)

MinAge == 1
MaxAge == 120

LocalChars == Letters \cup Digits \cup {".", "_", "%", "+", "-"}
DomainChars == Letters \cup Digits \cup {".", "-"}

\* the whole of s matches [local]+@[domain]+\.[letters]{2,}
EmailFullMatch(s) ==
    \E i \in 1..Len(s), j \in 1..Len(s) :
        /\ i > 1 /\ s[i] = "@"
        /\ \A k \in 1..(i - 1) : s[k] \in LocalChars
        /\ j > i + 1 /\ s[j] = "."
        /\ \A k \in (i + 1)..(j - 1) : s[k] \in DomainChars
        /\ Len(s) - j >= 2
        /\ \A k \in (j + 1)..Len(s) : s[k] \in Letters

\* re.match(pattern, s): "$" also matches just before a final newline
EmailPatternMatch(s) ==
    \/ EmailFullMatch(s)
    \/ s # << >> /\ s[Len(s)] = "\n" /\ EmailFullMatch(SubSeq(s, 1, Len(s) - 1))

validate_name(name) ==
    IF ~Truthy(name) THEN Raise("ValueError", "Name cannot be empty")
    ELSE IF Tag(name) # "str" THEN Raise("AttributeError", "isalpha")
    ELSE IF ~IsAlpha(name[2]) THEN Raise("ValueError", "Name must be alphabetic.")
    ELSE Ok(PyStr(Strip(name[2])))

validate_email(email) ==
    IF ~Truthy(email) THEN Raise("ValueError", "Email cannot be empty")
    ELSE IF Tag(email) # "str" THEN Raise("TypeError", "expected string")
    ELSE IF EmailPatternMatch(email[2]) THEN Ok(email)
    ELSE Raise("ValueError", "Invalid email format")

\* validate_age with the two bounds excluded
validate_age_exclusive(age) ==
    IF Tag(age) = "none" THEN Raise("ValueError", "Age cannot be empty")
    ELSE Only({ IF ~conv.ok THEN Raise("ValueError", "Age must be a number.")
                ELSE IF ~(MinAge < conv.n /\ conv.n < MaxAge)
                     THEN Raise("ValueError", "Age must be between 1 and 120.")
                ELSE Ok(PyInt(conv.n))
                : conv \in { CASE Tag(age) = "int" -> [ok |-> TRUE, n |-> age[2]]
                               [] Tag(age) = "str" -> ParseInt(age[2])
                               [] OTHER -> [ok |-> FALSE, n |-> 0] } })

validate_age(age) ==
    IF Tag(age) = "none" THEN Raise("ValueError", "Age cannot be empty")
    ELSE Only({ IF ~conv.ok THEN Raise("ValueError", "Age must be a number.")
                ELSE IF ~(MinAge <= conv.n /\ conv.n <= MaxAge)
                     THEN Raise("ValueError", "Age must be between 1 and 120.")
                ELSE Ok(PyInt(conv.n))
                : conv \in { CASE Tag(age) = "int" -> [ok |-> TRUE, n |-> age[2]]
                               [] Tag(age) = "str" -> ParseInt(age[2])
                               [] OTHER -> [ok |-> FALSE, n |-> 0] } })

\* Person.__init__: the fields a Person holds, or the exception raised
PersonInit(name, age, email) ==
    IF Tag(name) # "str" THEN Raise("AttributeError", "strip")
    ELSE Only({ IF ~a.ok THEN a
                ELSE IF ~e.ok THEN e
                ELSE Ok([name |-> Strip(name[2]), age |-> a.val[2], email |-> e.val[2]])
                : a \in {validate_age(age)}, e \in {validate_email(email)} })

\* an optional list argument: None becomes a new empty list
ListArg(xs) == IF Tag(xs) = "list" THEN xs[2] ELSE << >>

\* to_dict that leaves the age out
PersonToDictNoAge(p) ==
    << <<"name", PyStr(p.name)>>, <<"email", PyStr(p.email)>> >>

\* Person.to_dict
PersonToDict(p) ==
    << <<"name", PyStr(p.name)>>, <<"age", PyInt(p.age)>>, <<"email", PyStr(p.email)>> >>

-----------------------------------------------------------------------------
(* student.py *)

StudentInit(name, age, email, student_id, registered_courses) ==
    Only({ IF ~p.ok THEN p
           ELSE Ok([kind |-> "Student", name |-> p.val.name, age |-> p.val.age,
                    email |-> p.val.email, id |-> student_id,
                    courses |-> ListArg(registered_courses)])
           : p \in {PersonInit(name, age, email)} })

StudentToDict(s) ==
    PyDict(PersonToDict(s) \o << <<"student_id", s.id>>,
                                 <<"registered_courses", PyList(s.courses)>> >>)

\* Student.from_dict.  step = the first statement of the try block that
\* raises (0: none); the except clause discards the exception, and the
\* constructor call then reads the locals, of which those assigned before
\* the failing statement are bound.
StudentFromDict(data) ==
  Only({
    LET step == IF Tag(DictGet(data, "name")) = "none" THEN 1
                ELSE IF Tag(DictGet(data, "age")) = "none" THEN 2
                ELSE IF Tag(DictGet(data, "email")) = "none" THEN 3
                ELSE IF Tag(DictGet(data, "student_id")) = "none" THEN 4
                ELSE IF ~vn.ok THEN 5
                ELSE IF ~va.ok THEN 6
                ELSE IF ~ve.ok THEN 7
                ELSE 0
        bound == IF step = 0
                 THEN {"name", "age", "email", "student_id", "registered_courses"}
                 ELSE IF step = 1 THEN {"name"}
                 ELSE IF step = 2 THEN {"name", "age"}
                 ELSE IF step = 3 THEN {"name", "age", "email"}
                 ELSE {"name", "age", "email", "student_id"}
    IN  IF "registered_courses" \notin bound
        THEN Raise("UnboundLocalError", "local variable referenced before assignment")
        ELSE StudentInit(vn.val, va.val, ve.val, DictAt(data, "student_id"),
                         DictGetD(data, "registered_courses", PyList(<< >>)))
    : vn \in {validate_name(DictGet(data, "name"))},
      va \in {validate_age(DictGetD(data, "age", PyInt(1)))},
      ve \in {validate_email(DictGetD(data, "email", PyStr(<< >>)))} })

-----------------------------------------------------------------------------
(* instructor.py *)

InstructorInit(name, age, email, instructor_id, assigned_courses) ==
    Only({ IF ~p.ok THEN p
           ELSE Ok([kind |-> "Instructor", name |-> p.val.name, age |-> p.val.age,
                    email |-> p.val.email, id |-> instructor_id,
                    courses |-> ListArg(assigned_courses)])
           : p \in {PersonInit(name, age, email)} })

InstructorToDict(s) ==
    PyDict(PersonToDict(s) \o << <<"instructor_id", s.id>>,
                                 <<"assigned_courses", PyList(s.courses)>> >>)

\* Instructor.from_dict, as Student.from_dict: a failing statement of the
\* try block leaves assigned_courses (and what follows the failure) unbound
InstructorFromDict(data) ==
  Only({
    LET step == IF ~vn.ok THEN 1
                ELSE IF ~va.ok THEN 2
                ELSE IF ~ve.ok THEN 3
                ELSE IF ~DictHas(data, "instructor_id") THEN 4
                ELSE 0
        bound == IF step = 0
                 THEN {"name", "age", "email", "instructor_id", "assigned_courses"}
                 ELSE IF step = 1 THEN {}
                 ELSE IF step = 2 THEN {"name"}
                 ELSE IF step = 3 THEN {"name", "age"}
                 ELSE {"name", "age", "email"}
    IN  IF "assigned_courses" \notin bound
        THEN Raise("UnboundLocalError", "local variable referenced before assignment")
        ELSE InstructorInit(vn.val, va.val, ve.val, DictAt(data, "instructor_id"),
                            DictGetD(data, "assigned_courses", PyList(<< >>)))
    : vn \in {validate_name(DictGetD(data, "name", PyStr(<< >>)))},
      va \in {validate_age(DictGetD(data, "age", PyInt(0)))},
      ve \in {validate_email(DictGetD(data, "email", PyStr(<< >>)))} })

-----------------------------------------------------------------------------
(* Sample values the operations are driven with *)

sAnn == <<"A","n","n">>
sBob == <<"B","o","b">>
sMath == <<"M","a","t","h">>
sArt == <<"A","r","t">>
sEmailA == <<"a","@","x",".","c","o">>
sEmailB == <<"b","@","x",".","c","o">>

S1 == PyStr(<<"S","1">>)
S2 == PyStr(<<"S","2">>)
I1 == PyStr(<<"I","1">>)
I2 == PyStr(<<"I","2">>)
C1 == PyStr(<<"C","1">>)
C2 == PyStr(<<"C","2">>)

\* names: valid, empty, with a digit, with an inner space, with a leading space
NameArgs == {PyStr(sAnn), PyStr(<< >>), PyStr(<<"A","1">>),
             PyStr(<<"A"," ","B">>), PyStr(<<" ","A","l">>)}

\* ages: the boundary integers, numeric and non-numeric strings, None
AgeArgs == {PyInt(0), PyInt(1), PyInt(20), PyInt(120), PyInt(121),
            PyStr(<<"2","0">>), PyStr(<<" ","7">>), PyStr(<<"a","b">>),
            PyStr(<< >>), PyNone}

\* emails: valid, one-letter TLD, no TLD, no at sign, empty
EmailArgs == {PyStr(sEmailA), PyStr(<<"a","@","b",".","c">>), PyStr(<<"a","@","b">>),
              PyStr(<<"n","o","a","t">>), PyStr(<< >>)}

NoCall == [op |-> "none", args |-> << >>, done |-> TRUE, ret |-> Ok(PyNone)]

\* a call that has been made and has not returned yet
Call(op, args) == [op |-> op, args |-> args, done |-> FALSE, ret |-> Ok(PyNone)]

\* the same call once it has returned or raised
Return(c, r) == [c EXCEPT !.done = TRUE, !.ret = r]

\* a call that has returned r or raised r
Done(op, args, r) == [op |-> op, args |-> args, done |-> TRUE, ret |-> r]

Pending(op) == last.op = op /\ ~last.done

\* a mapping with each of the four fields present or absent
Mapping(idKey, ids, listKey) ==
    { PyDict(n \o a \o e \o i \o l) :
        n \in {<< >>} \cup {<< <<"name", v>> >> : v \in NameArgs},
        a \in {<< >>} \cup {<< <<"age", v>> >> : v \in AgeArgs},
        e \in {<< >>} \cup {<< <<"email", v>> >> : v \in EmailArgs},
        i \in {<< >>} \cup {<< <<idKey, v>> >> : v \in ids},
        l \in {<< >>, << <<listKey, PyList(<<C1>>)>> >>} }

EntityCalls ==
    {Call(op, <<n, a, e>>) : op \in {"Person", "Student", "Instructor"},
                             n \in NameArgs, a \in AgeArgs, e \in EmailArgs}
    \cup {Call("Student.from_dict", <<d>>) :
             d \in Mapping("student_id", {S1, PyNone}, "registered_courses")}
    \cup {Call("Instructor.from_dict", <<d>>) :
             d \in Mapping("instructor_id", {I1}, "assigned_courses")}

-----------------------------------------------------------------------------
(* Operations of the entity model, applied to the pending call *)

EntityIdle ==
    UNCHANGED <<file, coll, db, students, instructors, courses, heap, disk, steps, conns>>

NewPerson ==
    /\ Pending("Person")
    /\ last' = Return(last, PersonInit(last.args[1], last.args[2], last.args[3]))
    /\ EntityIdle

NewStudent ==
    /\ Pending("Student")
    /\ last' = Return(last, StudentInit(last.args[1], last.args[2], last.args[3], S1, PyNone))
    /\ EntityIdle

NewInstructor ==
    /\ Pending("Instructor")
    /\ last' = Return(last, InstructorInit(last.args[1], last.args[2], last.args[3], I1, PyNone))
    /\ EntityIdle

StudentFromDictCall ==
    /\ Pending("Student.from_dict")
    /\ last' = Return(last, StudentFromDict(last.args[1]))
    /\ EntityIdle

InstructorFromDictCall ==
    /\ Pending("Instructor.from_dict")
    /\ last' = Return(last, InstructorFromDict(last.args[1]))
    /\ EntityIdle

-----------------------------------------------------------------------------
(* database_manager.py.  db is the content of the storage file: the three  *)
(* entity tables as row sequences in rowid order (the order SELECT * scans *)
(* them), the two association tables as bags of rows.  A row is a tuple in *)
(* column order.  Foreign keys are declared but SQLite does not enforce    *)
(* them unless the connection enables them, and no connection does.        *)

\* the rows that are in keep, in order
RECURSIVE SelectRows(_, _)
SelectRows(rows, keep) ==
    IF rows = << >> THEN << >>
    ELSE (IF Head(rows) \in keep THEN <<Head(rows)>> ELSE << >>)
         \o SelectRows(Tail(rows), keep)

Range(seq) == {seq[i] : i \in 1..Len(seq)}

\* DELETE FROM table WHERE column col = v
DeleteWhere(rows, col, v) == SelectRows(rows, {r \in Range(rows) : r[col] # v})

\* the same on a bag of rows
BagDeleteWhere(bag, col, v) ==
    [r \in {x \in DOMAIN bag : x[col] # v} |-> bag[r]]

create_tables ==
    [students |-> << >>, instructors |-> << >>, courses |-> << >>,
     student_courses |-> EmptyBag, instructor_courses |-> EmptyBag]

\* add_student without the UNIQUE constraint on email
InsertConflictPkOnly(rows, row, uniq) == \E r \in Range(rows) : r[1] = row[1]

\* an association table without its composite primary key
BagInsertAlways(bag, row) == bag (+) SetToBag({row})

\* INSERT into a table whose column 1 is the primary key and whose columns
\* in uniq are UNIQUE: the row is appended, or the insert is refused
InsertConflict(rows, row, uniq) ==
    \E r \in Range(rows) : r[1] = row[1] \/ \E c \in uniq : r[c] = row[c]

InsertRow(rows, row, uniq) ==
    IF InsertConflict(rows, row, uniq) THEN rows ELSE Append(rows, row)

\* INSERT into an association table, whose primary key is the whole row
BagInsert(bag, row) == IF BagIn(row, bag) THEN bag ELSE bag (+) SetToBag({row})

StudentRow(s) == <<s.id, PyStr(s.name), PyInt(s.age), PyStr(s.email)>>

add_student(student) ==
    LET row == StudentRow(student)
    IN  /\ db' = [db EXCEPT !.students = InsertRow(@, row, {4})]
        /\ last' = [op |-> "add_student", args |-> <<student>>, done |-> TRUE,
                    ret |-> IF InsertConflict(db.students, row, {4})
                            THEN Raise("ValueError",
                                       "Student already exists or email is already in use")
                            ELSE Ok(PyNone)]

AllOk(rs) == \A i \in 1..Len(rs) : rs[i].ok

FirstFailure(rs) == rs[CHOOSE i \in 1..Len(rs) : ~rs[i].ok /\ \A j \in 1..(i - 1) : rs[j].ok]

Vals(rs) == [i \in 1..Len(rs) |-> rs[i].val]

\* a list comprehension over constructor calls: the list, or the first exception
Collect(rs) == IF AllOk(rs) THEN Ok(Vals(rs)) ELSE FirstFailure(rs)

\* a row read with the id taken from the name column
StudentOfRowMisread(row) == StudentInit(row[2], row[3], row[4], row[2], PyNone)

StudentOfRow(row) == StudentInit(row[2], row[3], row[4], row[1], PyNone)

get_all_students ==
    /\ last' = [op |-> "get_all_students", args |-> << >>, done |-> TRUE,
                ret |-> Collect([i \in 1..Len(db.students) |-> StudentOfRow(db.students[i])])]
    /\ UNCHANGED db

\* delete_student without the second DELETE
delete_student_row_only(student_id) ==
    /\ db' = [db EXCEPT !.students = DeleteWhere(@, 1, student_id)]
    /\ last' = [op |-> "delete_student", args |-> <<student_id>>, done |-> TRUE, ret |-> Ok(PyNone)]

delete_student(student_id) ==
    /\ db' = [db EXCEPT !.students = DeleteWhere(@, 1, student_id),
                        !.student_courses = BagDeleteWhere(@, 1, student_id)]
    /\ last' = [op |-> "delete_student", args |-> <<student_id>>, done |-> TRUE, ret |-> Ok(PyNone)]

add_instructor(instructor) ==
    LET row == StudentRow(instructor)
    IN  /\ db' = [db EXCEPT !.instructors = InsertRow(@, row, {4})]
        /\ last' = [op |-> "add_instructor", args |-> <<instructor>>, done |-> TRUE,
                    ret |-> IF InsertConflict(db.instructors, row, {4})
                            THEN Raise("ValueError", "Instructor already exists")
                            ELSE Ok(PyNone)]

InstructorOfRow(row) == InstructorInit(row[2], row[3], row[4], row[1], PyNone)

get_all_instructors ==
    /\ last' = [op |-> "get_all_instructors", args |-> << >>, done |-> TRUE,
                ret |-> Collect([i \in 1..Len(db.instructors) |-> InstructorOfRow(db.instructors[i])])]
    /\ UNCHANGED db

delete_instructor(instructor_id) ==
    /\ db' = [db EXCEPT !.instructors = DeleteWhere(@, 1, instructor_id),
                        !.instructor_courses = BagDeleteWhere(@, 1, instructor_id)]
    /\ last' = [op |-> "delete_instructor", args |-> <<instructor_id>>, done |-> TRUE, ret |-> Ok(PyNone)]

\* Course.__init__: the instructor argument is not stored
CourseInit(course_id, course_name, instructor, enrolled_students) ==
    [kind |-> "Course", id |-> course_id, name |-> course_name,
     instructor |-> << >>, students |-> ListArg(enrolled_students)]

CourseRow(c) == <<c.id, c.name>>

add_course(course) ==
    LET row == CourseRow(course)
    IN  /\ db' = [db EXCEPT !.courses = InsertRow(@, row, {})]
        /\ last' = [op |-> "add_course", args |-> <<course>>, done |-> TRUE,
                    ret |-> IF InsertConflict(db.courses, row, {})
                            THEN Raise("ValueError", "Course already exists")
                            ELSE Ok(PyNone)]

CourseOfRow(row) == Ok(CourseInit(row[1], row[2], PyNone, PyNone))

get_all_courses ==
    /\ last' = [op |-> "get_all_courses", args |-> << >>, done |-> TRUE,
                ret |-> Collect([i \in 1..Len(db.courses) |-> CourseOfRow(db.courses[i])])]
    /\ UNCHANGED db

delete_course(course_id) ==
    /\ db' = [db EXCEPT !.courses = DeleteWhere(@, 1, course_id),
                        !.student_courses = BagDeleteWhere(@, 2, course_id),
                        !.instructor_courses = BagDeleteWhere(@, 2, course_id)]
    /\ last' = [op |-> "delete_course", args |-> <<course_id>>, done |-> TRUE, ret |-> Ok(PyNone)]

register_student_course(student_id, course_id) ==
    LET row == <<student_id, course_id>>
    IN  /\ db' = [db EXCEPT !.student_courses = BagInsert(@, row)]
        /\ last' = [op |-> "register_student_course", args |-> row, done |-> TRUE,
                    ret |-> IF BagIn(row, db.student_courses)
                            THEN Raise("ValueError", "Registration already exists")
                            ELSE Ok(PyNone)]

assign_instructor_course(instructor_id, course_id) ==
    LET row == <<instructor_id, course_id>>
    IN  /\ db' = [db EXCEPT !.instructor_courses = BagInsert(@, row)]
        /\ last' = [op |-> "assign_instructor_course", args |-> row, done |-> TRUE,
                    ret |-> IF BagIn(row, db.instructor_courses)
                            THEN Raise("ValueError", "Assignment already exists")
                            ELSE Ok(PyNone)]

\* the entities the SQL forms build before calling add_*
DbStudentIds == {S1, S2}
DbInstructorIds == {I1, I2}
DbCourseIds == {C1, C2}
DbAssignCourseIds == {C1}

\* two entities share an id and two share an email
DbPeople(ids) == {<<ids[1], sEmailA>>, <<ids[2], sEmailA>>, <<ids[2], sEmailB>>}

DbStudents == {StudentInit(PyStr(sAnn), PyInt(20), PyStr(ie[2]), ie[1], PyNone).val :
                  ie \in DbPeople(<<S1, S2>>)}

DbInstructors == {InstructorInit(PyStr(sBob), PyInt(40), PyStr(ie[2]), ie[1], PyNone).val :
                     ie \in DbPeople(<<I1, I2>>)}

DbCourses == {CourseInit(id, PyStr(sMath), PyNone, PyNone) : id \in DbCourseIds}

DbIdle == UNCHANGED <<file, coll, students, instructors, courses, heap, disk, steps, conns>>

DbAddStudent == (\E s \in DbStudents : add_student(s)) /\ DbIdle
DbGetAllStudents == get_all_students /\ DbIdle
DbDeleteStudent == (\E id \in DbStudentIds : delete_student(id)) /\ DbIdle
DbAddInstructor == (\E i \in DbInstructors : add_instructor(i)) /\ DbIdle
DbGetAllInstructors == get_all_instructors /\ DbIdle
DbDeleteInstructor == (\E id \in DbInstructorIds : delete_instructor(id)) /\ DbIdle
DbAddCourse == (\E c \in DbCourses : add_course(c)) /\ DbIdle
DbGetAllCourses == get_all_courses /\ DbIdle
DbDeleteCourse == (\E id \in DbCourseIds : delete_course(id)) /\ DbIdle
DbRegister == (\E s \in DbStudentIds, c \in DbCourseIds : register_student_course(s, c)) /\ DbIdle
DbAssign == (\E i \in DbInstructorIds, c \in DbAssignCourseIds : assign_instructor_course(i, c)) /\ DbIdle

-----------------------------------------------------------------------------
(* course.py: serialisation.  A course's instructor field is << >> (None)   *)
(* or <<i>>, and its students field a sequence; here they hold the entities *)
(* themselves, in the form collections they hold references (see Deref).    *)

CourseToDict(c) ==
    PyDict(<< <<"course_id", c.id>>, <<"course_name", c.name>>,
              <<"instructor", IF c.instructor = << >> THEN PyNone
                              ELSE InstructorToDict(c.instructor[1])>>,
              <<"enrolled_students",
                PyList([i \in 1..Len(c.students) |-> StudentToDict(c.students[i])])>> >>)

\* a None among the objects handed to save_data
NoObject == [kind |-> "None"]

\* obj.to_dict()
ToDict(e) == CASE e.kind = "Student" -> StudentToDict(e)
               [] e.kind = "Instructor" -> InstructorToDict(e)
               [] e.kind = "Course" -> CourseToDict(e)

-----------------------------------------------------------------------------
(* data_manager.py.  A file is missing, or holds bytes that are not UTF-8    *)
(* text, or holds text that is not JSON, or holds the JSON text of a value; *)
(* json.dump followed by json.load gives                                    *)
(* back the value written for the values used here (strings, integers,      *)
(* null, lists, mappings with string keys in insertion order), so the file  *)
(* is modelled by the value.                                                *)

Missing == [st |-> "missing", val |-> PyNone]
Malformed == [st |-> "malformed", val |-> PyNone]
Undecodable == [st |-> "undecodable", val |-> PyNone]
JsonFile(v) == [st |-> "json", val |-> v]

\* by_key[k] = v where by_key always appends, losing the index
PutAppend(pairs, k, v) == Append(pairs, <<k, v>>)

\* by_key[k] = v on the items of a dict: replace in place or append
Put(pairs, k, v) ==
    IF \E i \in 1..Len(pairs) : pairs[i][1] = k
    THEN [i \in 1..Len(pairs) |-> IF pairs[i][1] = k THEN <<k, v>> ELSE pairs[i]]
    ELSE Append(pairs, <<k, v>>)

\* {**record, **old}: the stored values win
RECURSIVE MergeStoredWins(_, _)
MergeStoredWins(old, record) ==
    IF old = << >> THEN record
    ELSE MergeStoredWins(Tail(old), Put(record, Head(old)[1], Head(old)[2]))

\* {**old, **record} on the items of two dicts
RECURSIVE Merge(_, _)
Merge(old, record) ==
    IF record = << >> THEN old
    ELSE Merge(Put(old, Head(record)[1], Head(record)[2]), Tail(record))

\* the value the file holds, or [] (lines 25-31)
Existing(f) == IF f.st = "json" /\ Tag(f.val) = "list" THEN f.val[2] ELSE << >>

\* lines 25-31 as a whole: existing, or the exception the except clause does
\* not name (reading bytes that are not UTF-8 raises UnicodeDecodeError, a
\* ValueError that is no JSONDecodeError)
ReadExisting(f) ==
    IF f.st = "undecodable" THEN Raise("UnicodeDecodeError", "invalid start byte")
    ELSE Ok(Existing(f))

\* an index that starts empty whatever the file holds
IndexByKeyEmpty(existing, key_field, by_key) == by_key

\* the dict comprehension of line 34: existing records indexed by str(key)
RECURSIVE IndexByKey(_, _, _)
IndexByKey(existing, key_field, by_key) ==
    IF existing = << >> THEN by_key
    ELSE LET record == Head(existing)
         IN  IndexByKey(Tail(existing), key_field,
                        IF Tag(record) = "dict" /\ DictHas(record, key_field)
                        THEN Put(by_key, Str(DictAt(record, key_field)), record)
                        ELSE by_key)

\* by_key.get(key, {})
Stored(by_key, key) ==
    IF \E i \in 1..Len(by_key) : by_key[i][1] = key
    THEN by_key[CHOOSE i \in 1..Len(by_key) : by_key[i][1] = key][2]
    ELSE PyDict(<< >>)

\* the loop of lines 36-43 over the incoming objects
RECURSIVE MergeIncoming(_, _, _)
MergeIncoming(data, key_field, by_key) ==
    IF data = << >> THEN by_key
    ELSE LET obj == Head(data)
             record == ToDict(obj)
             key == Str(DictGet(record, key_field))
         IN  MergeIncoming(Tail(data), key_field,
                 IF obj.kind = "None" \/ key = << >> THEN by_key
                 ELSE Put(by_key, key,
                          PyDict(Merge(Stored(by_key, key)[2], record[2]))))

\* list(by_key.values())
Values(by_key) == [i \in 1..Len(by_key) |-> by_key[i][2]]

\* save that writes the incoming records only
save_data_replace(f, data, key_field) ==
    JsonFile(PyList(Values(MergeIncoming(data, key_field, << >>))))

\* DataManager.save_data: the file afterwards; a call that raises while
\* reading has not opened the file for writing
save_data(f, data, key_field) ==
    IF ~ReadExisting(f).ok THEN f
    ELSE JsonFile(PyList(Values(
             MergeIncoming(data, key_field, IndexByKey(Existing(f), key_field, << >>)))))

\* DataManager.save_data: None, or the exception raised
save_data_result(f) == IF ReadExisting(f).ok THEN Ok(PyNone) ELSE ReadExisting(f)

\* load that takes a file it cannot read for an empty array
load_json_lenient(f) == IF f.st = "json" THEN Ok(f.val) ELSE Ok(PyList(<< >>))

\* DataManager.load_json
load_json(f) == CASE f.st = "missing" -> Raise("FileNotFoundError", "")
                  [] f.st = "undecodable" -> Raise("UnicodeDecodeError", "")
                  [] f.st = "malformed" -> Raise("JSONDecodeError", "")
                  [] OTHER -> Ok(f.val)

-----------------------------------------------------------------------------
(* save_data driven by a caller: a collection of students that the caller   *)
(* appends to, edits and deletes from between saves, and one file           *)

MaxColl == 2

s7 == PyStr(<<"7">>)

\* ids: two keys and the empty string
SaveIds == {S1, s7, PyStr(<< >>)}

SaveStudent(id, name) == StudentInit(PyStr(name), PyInt(20), PyStr(sEmailA), id, PyNone).val

SaveObjects == {SaveStudent(id, n) : id \in SaveIds, n \in {sAnn, sBob}} \cup {NoObject}

\* records another writer left in the file: one with a field the entities
\* do not have, one whose key is the integer 7
NoteRecord == PyDict(<< <<"student_id", S1>>, <<"name", PyStr(sBob)>>,
                        <<"note", PyStr(<<"x">>)>> >>)
IntKeyRecord == PyDict(<< <<"student_id", PyInt(7)>>, <<"name", PyStr(sAnn)>> >>)
Unkeyed == PyDict(<< <<"name", PyStr(sAnn)>> >>)

\* what the file can hold before the first save
PriorFiles ==
    {Missing, Malformed, Undecodable, JsonFile(NoteRecord), JsonFile(PyList(<< >>)),
     JsonFile(PyList(<<IntKeyRecord, NoteRecord>>)),
     JsonFile(PyList(<<PyStr(<<"x">>), Unkeyed, NoteRecord, IntKeyRecord, NoteRecord>>))}

SaveIdle == UNCHANGED <<db, students, instructors, courses, heap, disk, steps, conns>>

Did(op) == [op |-> op, args |-> << >>, done |-> TRUE, ret |-> Ok(PyNone)]

CollAppend ==
    /\ Len(coll) < MaxColl
    /\ \E e \in SaveObjects : coll' = Append(coll, e)
    /\ last' = Did("append")
    /\ UNCHANGED file /\ SaveIdle

CollRemove ==
    /\ \E i \in 1..Len(coll) :
          coll' = SubSeq(coll, 1, i - 1) \o SubSeq(coll, i + 1, Len(coll))
    /\ last' = Did("remove")
    /\ UNCHANGED file /\ SaveIdle

\* one field of one entity changes
CollEdit ==
    /\ \E i \in 1..Len(coll) :
          /\ coll[i].kind = "Student"
          /\ \/ \E n \in {sAnn, sBob} : n # coll[i].name /\ coll' = [coll EXCEPT ![i].name = n]
             \/ \E id \in SaveIds : id # coll[i].id /\ coll' = [coll EXCEPT ![i].id = id]
    /\ last' = Did("edit")
    /\ UNCHANGED file /\ SaveIdle

SaveData ==
    /\ file' = save_data(file, coll, "student_id")
    /\ last' = Return(Call("save_data", << >>), save_data_result(file))
    /\ UNCHANGED coll /\ SaveIdle

LoadJson ==
    /\ last' = Return(Call("load_json", << >>), load_json(file))
    /\ UNCHANGED <<file, coll>> /\ SaveIdle

-----------------------------------------------------------------------------
(* Connections and file handles.  conns names the calls that have ended and *)
(* have left open a connection or a file handle they opened.  A statement   *)
(* sent to the storage file can raise sqlite3.OperationalError whatever the *)
(* tables hold (another process holds the lock, the disk fails); the        *)
(* transaction of a call that raises is not committed.                      *)

\* the number of persistence calls explored
MaxOps == 3

StorageError == Raise("OperationalError", "database is locked")

ConnFrame == /\ steps < MaxOps /\ steps' = steps + 1
             /\ UNCHANGED <<students, instructors, courses, heap, disk>>

\* conn = connect(); statements; conn.commit(); conn.close(): when a
\* statement raises, the lines after it, close() among them, do not run
Unguarded(op, args, call) ==
    \E raises \in BOOLEAN :
        IF raises
        THEN /\ last' = Done(op, args, StorageError)
             /\ db' = db
             /\ conns' = conns \cup {op}
        ELSE call /\ conns' = conns

\* conn = connect(); try: statement; commit() except IntegrityError: ...
\* finally: conn.close(): close() runs on every path
Guarded(op, args, call) ==
    \E raises \in BOOLEAN :
        /\ IF raises THEN last' = Done(op, args, StorageError) /\ db' = db ELSE call
        /\ conns' = conns

\* create_tables on the storage file that has the tables: CREATE TABLE IF
\* NOT EXISTS changes nothing
ConnCreateTables ==
    /\ Unguarded("create_tables", << >>,
                 db' = db /\ last' = Done("create_tables", << >>, Ok(PyNone)))
    /\ UNCHANGED <<file, coll>> /\ ConnFrame

\* add_student, add_instructor, add_course, register_student_course,
\* assign_instructor_course
ConnInsert ==
    /\ \/ \E s \in DbStudents : Guarded("add_student", <<s>>, add_student(s))
       \/ \E i \in DbInstructors : Guarded("add_instructor", <<i>>, add_instructor(i))
       \/ \E c \in DbCourses : Guarded("add_course", <<c>>, add_course(c))
       \/ \E s \in DbStudentIds, c \in DbCourseIds :
             Guarded("register_student_course", <<s, c>>, register_student_course(s, c))
       \/ \E i \in DbInstructorIds, c \in DbAssignCourseIds :
             Guarded("assign_instructor_course", <<i, c>>, assign_instructor_course(i, c))
    /\ UNCHANGED <<file, coll>> /\ ConnFrame

\* get_all_students, get_all_instructors, get_all_courses
ConnGetAll ==
    /\ \/ Unguarded("get_all_students", << >>, get_all_students)
       \/ Unguarded("get_all_instructors", << >>, get_all_instructors)
       \/ Unguarded("get_all_courses", << >>, get_all_courses)
    /\ UNCHANGED <<file, coll>> /\ ConnFrame

\* delete_student, delete_instructor, delete_course
ConnDelete ==
    /\ \/ \E id \in DbStudentIds : Unguarded("delete_student", <<id>>, delete_student(id))
       \/ \E id \in DbInstructorIds :
             Unguarded("delete_instructor", <<id>>, delete_instructor(id))
       \/ \E id \in DbCourseIds : Unguarded("delete_course", <<id>>, delete_course(id))
    /\ UNCHANGED <<file, coll>> /\ ConnFrame

\* save_data and load_json: each file is opened by a with statement, which
\* closes it when the block ends and when the block raises
ConnFile ==
    /\ \/ \E data \in {<< >>, <<SaveStudent(S1, sAnn)>>} :
             /\ file' = save_data(file, data, "student_id")
             /\ last' = Done("save_data", <<data>>, save_data_result(file))
       \/ /\ last' = Done("load_json", << >>, load_json(file))
          /\ file' = file
    /\ conns' = conns
    /\ UNCHANGED <<db, coll>> /\ ConnFrame

-----------------------------------------------------------------------------
(* course.py: deserialisation *)

\* data[k], or the KeyError
Item(data, k) == IF DictHas(data, k) THEN Ok(DictAt(data, k)) ELSE Raise("KeyError", k)

\* [Student.from_dict(student_data) for student_data in data['enrolled_students']]
EnrolledFromDict(data) ==
    IF ~DictHas(data, "enrolled_students") THEN Raise("KeyError", "enrolled_students")
    ELSE Collect([i \in 1..Len(DictAt(data, "enrolled_students")[2]) |->
                     StudentFromDict(DictAt(data, "enrolled_students")[2][i])])

\* Course.from_dict: the statements in the order they run, then the course,
\* holding the students it has built; the instructor it has built is handed
\* to Course.__init__, which drops it
CourseFromDict(data) ==
    Only(
        { IF ~parts.ok THEN parts
          ELSE Ok(CourseInit(parts.val[3], parts.val[4], parts.val[1], PyList(parts.val[2])))
          : parts \in { Collect(<< IF Truthy(DictGet(data, "instructor"))
                                 THEN InstructorFromDict(DictGet(data, "instructor"))
                                 ELSE Ok(PyNone),
                                 EnrolledFromDict(data),
                                 Item(data, "course_id"),
                                 Item(data, "course_name") >>) } })

-----------------------------------------------------------------------------
(* validators.py *)

\* uniqueness check that looks at no item
validate_unique_id_off(new_id, ids, excluded) == TRUE

\* uniqueness check that also looks at the object exclude
validate_unique_id_all(new_id, ids, excluded) ==
    ~\E i \in 1..Len(ids) : Str(ids[i]) = Strip(Str(new_id))

\* validate_unique_id(new_id, items, attr_name, exclude): ids holds the id
\* attribute of each item, excluded the positions at which items holds the
\* object exclude
validate_unique_id(new_id, ids, excluded) ==
    ~\E i \in 1..Len(ids) : Str(ids[i]) = Strip(Str(new_id)) /\ i \notin excluded

\* require(value, label)
require(value) == Truthy(value)

\* the calls of validate_unique_id explored: a candidate id (text with and
\* without surrounding blanks, a number, nothing), the ids of up to two
\* items, stored with and without blanks, and the positions of items that hold
\* the object exclude (none when exclude is None or is not among the items)
UniqueCandidates == {S1, PyStr(<<" ","S","1">>), PyStr(<<"S","1"," ">>), PyStr(<<"S"," ","1">>),
                     PyInt(7), PyStr(<<"7">>), PyStr(<< >>), PyNone}
UniqueStored == {S1, S2, PyStr(<<" ","S","1">>), PyStr(<<"7">>), PyInt(7)}
UniqueItems == {<< >>} \cup {<<a>> : a \in UniqueStored}
               \cup {<<a, b>> : a \in UniqueStored, b \in UniqueStored}
UniqueCalls ==
    {Call("validate_unique_id", <<c, ids, ex>>) :
        c \in UniqueCandidates, ids \in UniqueItems, ex \in SUBSET {1, 2}}

\* the positions that hold one object lie in items and hold one id
OneObject(ids, ex) ==
    /\ ex \subseteq 1..Len(ids)
    /\ \A i, j \in ex : ids[i] = ids[j]

UniqueIdCall ==
    /\ Pending("validate_unique_id")
    /\ last' = Return(last, Ok(<<"bool", validate_unique_id(last.args[1], last.args[2],
                                                             last.args[3])>>))
    /\ EntityIdle

-----------------------------------------------------------------------------
(* The Tk application (tk_main.py): the three lists, the objects they and   *)
(* the courses refer to, and the three JSON files.  students and            *)
(* instructors hold object references (keys of heap); a course holds the    *)
(* reference of its instructor and of each enrolled student.                *)

STUDENTS_FILE == "students.json"
INSTRUCTORS_FILE == "instructors.json"
COURSES_FILE == "courses.json"

\* the smallest reference not in use
NewRef(h) == CHOOSE n \in 1..(Cardinality(DOMAIN h) + 1) :
                 n \notin DOMAIN h /\ \A m \in 1..(n - 1) : m \in DOMAIN h

\* the objects reachable from the three lists
Live(ss, is, cs) ==
    Range(ss) \cup Range(is)
    \cup UNION {Range(cs[i].instructor) \cup Range(cs[i].students) : i \in 1..Len(cs)}

\* the heap without the objects nothing refers to any more
Collected(h, ss, is, cs) == [r \in DOMAIN h \cap Live(ss, is, cs) |-> h[r]]

Ids(refs) == [i \in 1..Len(refs) |-> heap[refs[i]].id]

CourseIdsOf(cs) == [i \in 1..Len(cs) |-> cs[i].id]

\* seq without its element at position i
RemoveAt(seq, i) == SubSeq(seq, 1, i - 1) \o SubSeq(seq, i + 1, Len(seq))

\* list.remove(x): drop the first occurrence
RemoveFirst(seq, x) ==
    IF \E i \in 1..Len(seq) : seq[i] = x
    THEN RemoveAt(seq, CHOOSE i \in 1..Len(seq) : seq[i] = x /\ \A j \in 1..(i - 1) : seq[j] # x)
    ELSE seq

\* next(o for o in items if str(o.id) == str(record_id)): position, or 0
FirstWithId(ids, record_id) ==
    IF \E i \in 1..Len(ids) : Str(ids[i]) = Str(record_id)
    THEN CHOOSE i \in 1..Len(ids) :
             Str(ids[i]) = Str(record_id) /\ \A j \in 1..(i - 1) : Str(ids[j]) # Str(record_id)
    ELSE 0

\* a course with the objects it refers to in place of the references
Deref(c) == [c EXCEPT !.instructor = [i \in 1..Len(c.instructor) |-> heap[c.instructor[i]]],
                      !.students = [i \in 1..Len(c.students) |-> heap[c.students[i]]]]

\* the handler returned after a warning, changing nothing
Rejected == Raise("", "rejected")

\* the number of handler runs explored from the start of the application
MaxSteps == 4

\* one more handler has run; the other stores are not touched
AppFrame == steps < MaxSteps /\ steps' = steps + 1 /\ UNCHANGED <<file, coll, db, conns>>

\* what the user types into the forms: a valid name and one with a digit;
\* ids with and without surrounding blanks, and the empty id
FormNames == {sAnn, <<"A","1">>}
FormAge == <<"2","0">>
StudentIdInputs == {<<"S","1">>, <<" ","S","1">>, <<"S","2">>, << >>}
InstructorIdInputs == {<<"I","1">>, <<"I","2">>, << >>}
CourseIdInputs == {<<"C","1">>, <<"C","2">>, <<"C","1"," ">>, << >>}

\* the checks the add and edit handlers of a person make before they act
PersonInputOk(name, age, email, pid) ==
    /\ validate_name(PyStr(name)).ok
    /\ validate_age(PyStr(age)).ok
    /\ validate_email(PyStr(email)).ok
    /\ require(PyStr(pid))

\* student_form.add_student
AddStudent ==
    \E n \in FormNames, i \in StudentIdInputs :
        LET name == Strip(n)
            sid == Strip(i)
            made == StudentInit(PyStr(name), PyStr(FormAge), PyStr(sEmailA), PyStr(sid), PyNone)
            accepted == /\ PersonInputOk(name, FormAge, sEmailA, sid)
                        /\ validate_unique_id(PyStr(sid), Ids(students), {})
        IN  /\ IF accepted /\ made.ok
               THEN /\ heap' = heap @@ (NewRef(heap) :> made.val)
                    /\ students' = Append(students, NewRef(heap))
               ELSE UNCHANGED <<heap, students>>
            /\ last' = Done("add_student", << >>,
                            IF ~accepted THEN Rejected
                            ELSE IF made.ok THEN Ok(PyNone) ELSE made)
            /\ UNCHANGED <<instructors, courses, disk>> /\ AppFrame

\* instructor_form.add_instructor
AddInstructor ==
    \E n \in FormNames, i \in InstructorIdInputs :
        LET name == Strip(n)
            iid == Strip(i)
            made == InstructorInit(PyStr(name), PyStr(FormAge), PyStr(sEmailA), PyStr(iid), PyNone)
            accepted == /\ PersonInputOk(name, FormAge, sEmailA, iid)
                        /\ validate_unique_id(PyStr(iid), Ids(instructors), {})
        IN  /\ IF accepted /\ made.ok
               THEN /\ heap' = heap @@ (NewRef(heap) :> made.val)
                    /\ instructors' = Append(instructors, NewRef(heap))
               ELSE UNCHANGED <<heap, instructors>>
            /\ last' = Done("add_instructor", << >>,
                            IF ~accepted THEN Rejected
                            ELSE IF made.ok THEN Ok(PyNone) ELSE made)
            /\ UNCHANGED <<students, courses, disk>> /\ AppFrame

\* course_form.add_course
AddCourse ==
    \E i \in CourseIdInputs, n \in {sMath, << >>} :
        LET course_id == Strip(i)
            course_name == Strip(n)
            accepted == /\ require(PyStr(course_id)) /\ require(PyStr(course_name))
                        /\ validate_unique_id(PyStr(course_id), CourseIdsOf(courses), {})
        IN  /\ courses' = IF accepted
                          THEN Append(courses, CourseInit(PyStr(course_id), PyStr(course_name),
                                                          PyNone, PyNone))
                          ELSE courses
            /\ last' = Done("add_course", << >>,
                            IF accepted THEN Ok(PyNone) ELSE Rejected)
            /\ UNCHANGED <<students, instructors, heap, disk>> /\ AppFrame

\* records_form.save_changes on the person that edit_selected found for the
\* selected row of pool
SaveChanges(person_type, pool, inputs) ==
    \E row \in 1..Len(pool), n \in FormNames, i \in inputs :
        LET person == pool[FirstWithId(Ids(pool), heap[pool[row]].id)]
            name == Strip(n)
            new_id == Strip(i)
            accepted == /\ PersonInputOk(name, FormAge, sEmailA, new_id)
                        /\ validate_unique_id(PyStr(new_id), Ids(pool),
                                              {k \in 1..Len(pool) : pool[k] = person})
        IN  /\ heap' = IF accepted
                       THEN [heap EXCEPT ![person] =
                                [@ EXCEPT !.name = name, !.age = ParseInt(FormAge).n,
                                          !.email = validate_email(PyStr(sEmailA)).val[2],
                                          !.id = PyStr(new_id)]]
                       ELSE heap
            /\ last' = Done("save_changes", <<person_type>>,
                            IF accepted THEN Ok(PyNone) ELSE Rejected)
            /\ UNCHANGED <<students, instructors, courses, disk>> /\ AppFrame

EditStudent == SaveChanges("student", students, StudentIdInputs)

EditInstructor == SaveChanges("instructor", instructors, InstructorIdInputs)

\* the elements of registered_courses and assigned_courses the loops of
\* save_course visit, in order
RECURSIVE CourseRefs(_)
CourseRefs(refs) == IF refs = << >> THEN << >>
                    ELSE heap[Head(refs)].courses \o CourseRefs(Tail(refs))

\* records_form.save_course.  The loops read c.course_id of each list
\* element; the elements are course ids, which have no such attribute, so
\* the first element visited raises, after the course has been changed.
SaveCourse ==
    \E row \in 1..Len(courses), i \in CourseIdInputs :
        LET c == FirstWithId(CourseIdsOf(courses), courses[row].id)
            old_id == courses[c].id
            new_id == PyStr(Strip(i))
            new_name == PyStr(Strip(sMath))
            accepted == /\ require(new_id) /\ require(new_name)
                        /\ validate_unique_id(new_id, CourseIdsOf(courses), {c})
        IN  /\ courses' = IF accepted
                          THEN [courses EXCEPT ![c].id = new_id, ![c].name = new_name]
                          ELSE courses
            /\ last' = Done("save_course", << >>,
                            IF ~accepted THEN Rejected
                            ELSE IF old_id # new_id /\ CourseRefs(students \o instructors) # << >>
                                 THEN Raise("AttributeError", "course_id")
                                 ELSE Ok(PyNone))
            /\ UNCHANGED <<students, instructors, heap, disk>> /\ AppFrame

\* records_form.delete_selected, confirmed, on a student row
DeleteStudent ==
    \E row \in 1..Len(students) :
        LET record_id == heap[students[row]].id
            student == students[FirstWithId(Ids(students), record_id)]
            cs == [k \in 1..Len(courses) |->
                      [courses[k] EXCEPT !.students = RemoveFirst(@, student)]]
            ss == RemoveFirst(students, student)
        IN  /\ courses' = cs
            /\ students' = ss
            /\ heap' = Collected(heap, ss, instructors, cs)
            /\ last' = Done("delete_student", <<record_id>>, Ok(PyNone))
            /\ UNCHANGED <<instructors, disk>> /\ AppFrame

\* records_form.delete_selected, confirmed, on an instructor row
DeleteInstructor ==
    \E row \in 1..Len(instructors) :
        LET record_id == heap[instructors[row]].id
            instructor == instructors[FirstWithId(Ids(instructors), record_id)]
            cs == [k \in 1..Len(courses) |->
                      IF courses[k].instructor = <<instructor>>
                      THEN [courses[k] EXCEPT !.instructor = << >>]
                      ELSE courses[k]]
            is == RemoveFirst(instructors, instructor)
        IN  /\ courses' = cs
            /\ instructors' = is
            /\ heap' = Collected(heap, students, is, cs)
            /\ last' = Done("delete_instructor", <<record_id>>, Ok(PyNone))
            /\ UNCHANGED <<students, disk>> /\ AppFrame

\* records_form.delete_selected, confirmed, on a course row
DeleteCourse ==
    \E row \in 1..Len(courses) :
        LET record_id == courses[row].id
            c == FirstWithId(CourseIdsOf(courses), record_id)
            cs == RemoveAt(courses, c)
            h == [r \in DOMAIN heap |->
                     IF r \in Range(students) \cup Range(instructors)
                     THEN [heap[r] EXCEPT !.courses = RemoveFirst(@, courses[c].id)]
                     ELSE heap[r]]
        IN  /\ courses' = cs
            /\ heap' = Collected(h, students, instructors, cs)
            /\ last' = Done("delete_course", <<record_id>>, Ok(PyNone))
            /\ UNCHANGED <<students, instructors, disk>> /\ AppFrame

\* list.append(x) without the membership test
AppendAlways(seq, x) == Append(seq, x)

\* list.append(x) unless x is in the list
AppendNew(seq, x) == IF x \in Range(seq) THEN seq ELSE Append(seq, x)

\* an argument: the object with reference r, or a value that is no object
ObjRef(r) == <<"ref", r>>
ObjVal(v) == <<"val", v>>

\* isinstance(x, kind)
IsInstance(x, kind) == x[1] = "ref" /\ heap[x[2]].kind = kind

\* Student.register_course(course)
register_course(self, course) == [self EXCEPT !.courses = AppendNew(@, course.id)]

\* Instructor.assign_course(course)
assign_course(self, course) == [self EXCEPT !.courses = AppendNew(@, course.id)]

\* add_instructor that keeps the instructor a course already has
Course_add_instructor_keep(self, instructor) ==
    IF ~IsInstance(instructor, "Instructor")
    THEN Raise("ValueError", "Only an Instructor can be assigned to the course.")
    ELSE Ok(IF self.instructor = << >> THEN [self EXCEPT !.instructor = <<instructor[2]>>]
            ELSE self)

\* Course.add_instructor(instructor): the course afterwards, or the exception
Course_add_instructor(self, instructor) ==
    IF ~IsInstance(instructor, "Instructor")
    THEN Raise("ValueError", "Only an Instructor can be assigned to the course.")
    ELSE Ok([self EXCEPT !.instructor = <<instructor[2]>>])

\* add_student without the isinstance test
Course_add_student_unchecked(self, student) ==
    Ok([self EXCEPT !.students = AppendNew(@, student[2])])

\* Course.add_student(student): the course afterwards, or the exception
Course_add_student(self, student) ==
    IF ~IsInstance(student, "Student")
    THEN Raise("ValueError", "Only a Student can be enrolled in the course.")
    ELSE Ok([self EXCEPT !.students = AppendNew(@, student[2])])

\* registration_form.register on the selected student and course.  The
\* duplicate check reads registered_course.course_id of the first element of
\* registered_courses, a course id, which has no such attribute.
Register ==
    \E si \in 1..Len(students), ci \in 1..Len(courses) :
        LET selected_student == students[si]
            raises == heap[selected_student].courses # << >>
        IN  /\ heap' = IF raises THEN heap
                       ELSE [heap EXCEPT ![selected_student] =
                                register_course(@, courses[ci])]
            /\ courses' = IF raises THEN courses
                          ELSE [courses EXCEPT ![ci] =
                                   Course_add_student(@, ObjRef(selected_student)).val]
            /\ last' = Done("register", <<si, ci>>,
                            IF raises THEN Raise("AttributeError", "course_id") ELSE Ok(PyNone))
            /\ UNCHANGED <<students, instructors, disk>> /\ AppFrame

\* assignment_form.assign_instructor on the selected instructor and course;
\* replace is the answer to the "Replace?" question, asked when the course
\* has another instructor.  The "already assigned"
\* message reads selected_instructor.course_name, which no Instructor has.
AssignInstructor ==
    \E ii \in 1..Len(instructors), ci \in 1..Len(courses), replace \in BOOLEAN :
        LET selected_instructor == instructors[ii]
            current == courses[ci].instructor
            same == /\ current # << >>
                    /\ heap[current[1]].id = heap[selected_instructor].id
            asked == current # << >> /\ ~same
            acts == ~same /\ (current = << >> \/ replace)
        IN  /\ heap' = IF acts
                       THEN [heap EXCEPT ![selected_instructor] =
                                assign_course(@, courses[ci])]
                       ELSE heap
            /\ courses' = IF acts
                          THEN [courses EXCEPT ![ci] =
                                   Course_add_instructor(@, ObjRef(selected_instructor)).val]
                          ELSE courses
            /\ last' = Done("assign_instructor", <<ii, ci, asked>>,
                            IF same THEN Raise("AttributeError", "course_name")
                            ELSE IF acts THEN Ok(PyNone) ELSE Rejected)
            /\ UNCHANGED <<students, instructors, disk>> /\ AppFrame

\* records_form.save_all: the three saves in turn; the first that raises
\* ends the try block, and the handler shows the error
SaveAll ==
    \E rs \in {save_data_result(disk[STUDENTS_FILE])},
       ri \in {save_data_result(disk[INSTRUCTORS_FILE])},
       rc \in {save_data_result(disk[COURSES_FILE])} :
        /\ disk' = [disk EXCEPT
               ![STUDENTS_FILE] =
                   save_data(@, [k \in 1..Len(students) |-> heap[students[k]]], "student_id"),
               ![INSTRUCTORS_FILE] =
                   IF ~rs.ok THEN @
                   ELSE save_data(@, [k \in 1..Len(instructors) |-> heap[instructors[k]]],
                                  "instructor_id"),
               ![COURSES_FILE] =
                   IF ~(rs.ok /\ ri.ok) THEN @
                   ELSE save_data(@, [k \in 1..Len(courses) |-> Deref(courses[k])],
                                  "course_id")]
        /\ last' = Done("save_all", << >>,
                        IF ~rs.ok THEN rs ELSE IF ~ri.ok THEN ri ELSE rc)
        /\ UNCHANGED <<students, instructors, courses, heap>> /\ AppFrame

\* [Student.from_dict(d) for d in student_data], and the like
NotRecords == Raise("TypeError", "not a list of records")

LoadedStudents(data) ==
    IF Tag(data) # "list" THEN NotRecords
    ELSE Collect([k \in 1..Len(data[2]) |-> StudentFromDict(data[2][k])])

LoadedInstructors(data) ==
    IF Tag(data) # "list" THEN NotRecords
    ELSE Collect([k \in 1..Len(data[2]) |-> InstructorFromDict(data[2][k])])

LoadedCourses(data) ==
    IF Tag(data) # "list" THEN NotRecords
    ELSE Collect([k \in 1..Len(data[2]) |-> CourseFromDict(data[2][k])])

\* load that appends every loaded entity
NewRecordsAll(existing, loaded) == loaded

\* the loaded entities load_all appends: those whose id is not among the ids
\* already there, nor among the ids of the loaded entities before them
RECURSIVE NewRecords(_, _)
NewRecords(existing, loaded) ==
    IF loaded = << >> THEN << >>
    ELSE IF Head(loaded).id \in existing THEN NewRecords(existing, Tail(loaded))
    ELSE <<Head(loaded)>> \o NewRecords(existing \cup {Head(loaded).id}, Tail(loaded))

\* the k-th smallest reference not in use
FreeRef(h, k) ==
    CHOOSE r \in 1..(Cardinality(DOMAIN h) + k) :
        /\ r \notin DOMAIN h
        /\ Cardinality({m \in 1..(r - 1) : m \notin DOMAIN h}) = k - 1

\* new objects for the entities es: the heap with them, and their references
Alloc(h, es) ==
    LET refs == [k \in 1..Len(es) |-> FreeRef(h, k)]
    IN  [heap |-> [r \in DOMAIN h \cup Range(refs) |->
                      IF r \in DOMAIN h THEN h[r]
                      ELSE es[CHOOSE k \in 1..Len(es) : refs[k] = r]],
         refs |-> refs]

\* the students the courses cs hold, course after course
RECURSIVE Enrolled(_)
Enrolled(cs) == IF cs = << >> THEN << >> ELSE Head(cs).students \o Enrolled(Tail(cs))

\* the same for courses, each with new objects for its students
AllocCourses(h, cs) ==
    LET enrolled == Alloc(h, Enrolled(cs))
        Before(k) == Len(Enrolled(SubSeq(cs, 1, k - 1)))
    IN  [heap |-> enrolled.heap,
         courses |-> [k \in 1..Len(cs) |->
                         [cs[k] EXCEPT !.students =
                             SubSeq(enrolled.refs, Before(k) + 1, Before(k) + Len(cs[k].students))]]]

\* a load that takes a file it cannot read, or whose records it cannot
\* build, for an empty one and goes on with the others
LoadedSkipping ==
    LET Part(r, build(_)) == IF r.ok /\ build(r.val).ok THEN build(r.val).val ELSE << >>
    IN  Ok(<<Part(load_json(disk[STUDENTS_FILE]), LoadedStudents),
             Part(load_json(disk[INSTRUCTORS_FILE]), LoadedInstructors),
             Part(load_json(disk[COURSES_FILE]), LoadedCourses)>>)

\* the three lists of entities load_all builds from the files, or the first
\* exception: every load_json and from_dict call precedes the first append
Loaded ==
    Only(
        { IF ~read.ok THEN read
          ELSE Collect(<<LoadedStudents(read.val[1]), LoadedInstructors(read.val[2]),
                         LoadedCourses(read.val[3])>>)
          : read \in { Collect(<<load_json(disk[STUDENTS_FILE]),
                                 load_json(disk[INSTRUCTORS_FILE]),
                                 load_json(disk[COURSES_FILE])>>) } })

\* records_form.load_all; an exception leaves the three lists as they were
LoadAll ==
    \E built \in {Loaded} :
        /\ IF built.ok
           THEN \E s \in {Alloc(heap, NewRecords(Range(Ids(students)), built.val[1]))} :
                \E i \in {Alloc(s.heap, NewRecords(Range(Ids(instructors)), built.val[2]))} :
                \E c \in {AllocCourses(i.heap, NewRecords(Range(CourseIdsOf(courses)),
                                                          built.val[3]))} :
                    /\ students' = students \o s.refs
                    /\ instructors' = instructors \o i.refs
                    /\ courses' = courses \o c.courses
                    /\ heap' = c.heap
           ELSE UNCHANGED <<students, instructors, courses, heap>>
        /\ last' = Done("load_all", << >>, IF built.ok THEN Ok(PyNone) ELSE built)
        /\ UNCHANGED disk /\ AppFrame

\* the application is closed and started again: tk_main.main builds three
\* empty lists; the files stay
Restart ==
    /\ students' = << >> /\ instructors' = << >> /\ courses' = << >>
    /\ heap' = << >>
    /\ last' = Done("main", << >>, Ok(PyNone))
    /\ UNCHANGED disk /\ AppFrame

-----------------------------------------------------------------------------
(* The entity objects and their methods, called directly (student.py,       *)
(* instructor.py, course.py): heap holds the Student and Instructor objects, *)
(* courses the Course objects, which refer to heap objects.                  *)

\* the number of method calls explored from the constructed objects
MaxCalls == 3

\* the record of a method call; again tells that the call before it was the
\* same method on the same objects
ObjDone(op, args, r) ==
    [op |-> op, args |-> args, done |-> TRUE, ret |-> r,
     again |-> last.done /\ last.op = op /\ last.args = args]

ObjFrame == /\ steps < MaxCalls /\ steps' = steps + 1
            /\ UNCHANGED <<file, coll, db, students, instructors, disk, conns>>

\* the objects the calls start from: two students and an instructor, built
\* by their constructors from a name with a leading space, a name with a
\* digit, an age given as text, an empty id, and course lists that are
\* absent, hold one id or hold two
ObjStudents1 ==
    {StudentInit(PyStr(sAnn), PyInt(20), PyStr(sEmailA), S1, PyNone).val,
     StudentInit(PyStr(<<" ","A","l">>), PyStr(FormAge), PyStr(sEmailA), PyStr(<< >>),
                 PyList(<<C1>>)).val}
ObjStudents2 ==
    {StudentInit(PyStr(sBob), PyInt(120), PyStr(sEmailB), S2, PyList(<<C2, C1>>)).val,
     StudentInit(PyStr(<<"A","1">>), PyInt(20), PyStr(sEmailB), S2, PyNone).val}
ObjInstructors ==
    {InstructorInit(PyStr(sBob), PyInt(40), PyStr(sEmailB), I1, PyNone).val,
     InstructorInit(PyStr(sAnn), PyStr(FormAge), PyStr(sEmailA), PyStr(<< >>),
                    PyList(<<C2>>)).val}
ObjHeaps == {<<s1, s2, i>> : s1 \in ObjStudents1, s2 \in ObjStudents2, i \in ObjInstructors}

\* Course("C1", "Math", instructor, enrolled_students) with the instructor
\* argument absent or the instructor object, and the list argument absent or
\* a list of the student objects
ObjCourses ==
    {CourseInit(C1, PyStr(sMath), i, l) :
        i \in {PyNone, ObjRef(3)},
        l \in {PyNone, PyList(<<1>>), PyList(<<1, 2>>), PyList(<<2, 2>>)}}

\* what a method can be handed: any of the objects, a string, None
ObjArgs == {ObjRef(r) : r \in DOMAIN heap} \cup {ObjVal(C1), ObjVal(PyNone)}

StudentRefs == {r \in DOMAIN heap : heap[r].kind = "Student"}
InstructorRefs == {r \in DOMAIN heap : heap[r].kind = "Instructor"}

ObjRegisterCourse ==
    /\ \E r \in StudentRefs, k \in 1..Len(courses) :
          /\ heap' = [heap EXCEPT ![r] = register_course(@, courses[k])]
          /\ last' = ObjDone("Student.register_course", <<r, k>>, Ok(PyNone))
    /\ UNCHANGED courses /\ ObjFrame

ObjAssignCourse ==
    /\ \E r \in InstructorRefs, k \in 1..Len(courses) :
          /\ heap' = [heap EXCEPT ![r] = assign_course(@, courses[k])]
          /\ last' = ObjDone("Instructor.assign_course", <<r, k>>, Ok(PyNone))
    /\ UNCHANGED courses /\ ObjFrame

ObjAddInstructor ==
    /\ \E k \in 1..Len(courses), x \in ObjArgs :
       \E r \in {Course_add_instructor(courses[k], x)} :
          /\ courses' = IF r.ok THEN [courses EXCEPT ![k] = r.val] ELSE courses
          /\ last' = ObjDone("Course.add_instructor", <<k, x>>,
                          IF r.ok THEN Ok(PyNone) ELSE r)
    /\ UNCHANGED heap /\ ObjFrame

ObjAddStudent ==
    /\ \E k \in 1..Len(courses), x \in ObjArgs :
       \E r \in {Course_add_student(courses[k], x)} :
          /\ courses' = IF r.ok THEN [courses EXCEPT ![k] = r.val] ELSE courses
          /\ last' = ObjDone("Course.add_student", <<k, x>>,
                          IF r.ok THEN Ok(PyNone) ELSE r)
    /\ UNCHANGED heap /\ ObjFrame

\* x.to_dict() of a student, an instructor or a course
ObjToDict ==
    /\ \/ \E r \in StudentRefs :
             last' = ObjDone("Student.to_dict", <<r>>, Ok(StudentToDict(heap[r])))
       \/ \E r \in InstructorRefs :
             last' = ObjDone("Instructor.to_dict", <<r>>, Ok(InstructorToDict(heap[r])))
       \/ \E k \in 1..Len(courses) :
             last' = ObjDone("Course.to_dict", <<k>>, Ok(CourseToDict(Deref(courses[k]))))
    /\ UNCHANGED <<heap, courses>> /\ ObjFrame

\* cls.from_dict(d) on the mapping the to_dict call before it returned; the
\* object built is the value returned and is not stored anywhere
ObjFromDict ==
    /\ last.done /\ last.ret.ok
    /\ \/ /\ last.op = "Student.to_dict"
          /\ last' = ObjDone("Student.from_dict", <<last.ret.val>>, StudentFromDict(last.ret.val))
       \/ /\ last.op = "Instructor.to_dict"
          /\ last' = ObjDone("Instructor.from_dict", <<last.ret.val>>,
                          InstructorFromDict(last.ret.val))
       \/ /\ last.op = "Course.to_dict"
          /\ last' = ObjDone("Course.from_dict", <<last.ret.val>>, CourseFromDict(last.ret.val))
    /\ UNCHANGED <<heap, courses>> /\ ObjFrame

-----------------------------------------------------------------------------
(* Specifications *)

\* what the parts a specification does not exercise stay at
\* no file has been written yet
NoFiles == [f \in {STUDENTS_FILE, INSTRUCTORS_FILE, COURSES_FILE} |-> Missing]

\* the files an earlier run of the application left: that run added student
\* S1, instructors I1 and I2 and course C1, registered S1 in C1, assigned I1
\* to C1 and saved
SessionStudent ==
    StudentInit(PyStr(sAnn), PyStr(FormAge), PyStr(sEmailA), S1, PyList(<<C1>>)).val
SessionInstructor ==
    InstructorInit(PyStr(sAnn), PyStr(FormAge), PyStr(sEmailA), I1, PyList(<<C1>>)).val
SessionInstructor2 ==
    InstructorInit(PyStr(sAnn), PyStr(FormAge), PyStr(sEmailA), I2, PyNone).val
SessionCourse ==
    [CourseInit(C1, PyStr(sMath), PyNone, PyNone)
        EXCEPT !.instructor = <<SessionInstructor>>, !.students = <<SessionStudent>>]
SavedFiles ==
    [f \in {STUDENTS_FILE, INSTRUCTORS_FILE, COURSES_FILE} |->
        CASE f = STUDENTS_FILE -> save_data(Missing, <<SessionStudent>>, "student_id")
          [] f = INSTRUCTORS_FILE -> save_data(Missing, <<SessionInstructor, SessionInstructor2>>,
                                           "instructor_id")
          [] f = COURSES_FILE -> save_data(Missing, <<SessionCourse>>, "course_id")]

\* files written by hand: students.json holds two records with the id S1
HandStudent == StudentInit(PyStr(sBob), PyInt(20), PyStr(sEmailB), S1, PyNone).val
HandFiles ==
    [f \in {STUDENTS_FILE, INSTRUCTORS_FILE, COURSES_FILE} |->
        IF f = STUDENTS_FILE
        THEN JsonFile(PyList(<<StudentToDict(SessionStudent), StudentToDict(HandStudent)>>))
        ELSE JsonFile(PyList(<< >>))]

InitEntity == last = NoCall
InitFile == file = Missing /\ coll = << >>
\* DatabaseManager(): create_tables has run and has closed its connection
InitDb == db = create_tables /\ conns = {}
InitApp == /\ students = << >> /\ instructors = << >> /\ courses = << >>
           /\ heap = << >> /\ steps = 0
           /\ disk = NoFiles

\* the entity model: constructors and from_dict on sample arguments
InitE == last \in EntityCalls /\ InitFile /\ InitDb /\ InitApp
NextE == \/ NewPerson \/ NewStudent \/ NewInstructor
         \/ StudentFromDictCall \/ InstructorFromDictCall
SpecEntity == InitE /\ [][NextE]_vars

\* the relational store: DatabaseManager() followed by any calls
InitD == InitEntity /\ InitFile /\ InitDb /\ InitApp
NextD == \/ DbAddStudent \/ DbGetAllStudents \/ DbDeleteStudent
         \/ DbAddInstructor \/ DbGetAllInstructors \/ DbDeleteInstructor
         \/ DbAddCourse \/ DbGetAllCourses \/ DbDeleteCourse
         \/ DbRegister \/ DbAssign
SpecDb == InitD /\ [][NextD]_vars

\* one JSON file under save_data and load_json
InitS == InitEntity /\ file \in PriorFiles /\ coll = << >> /\ InitDb /\ InitApp
NextS == CollAppend \/ CollRemove \/ CollEdit \/ SaveData \/ LoadJson
SpecSave == InitS /\ [][NextS]_vars

\* validators.py: validate_unique_id on sample arguments
InitV == /\ last \in {c \in UniqueCalls : OneObject(c.args[2], c.args[3])}
         /\ InitFile /\ InitDb /\ InitApp
NextV == UniqueIdCall
SpecValidators == InitV /\ [][NextV]_vars

\* the two persistence classes: DatabaseManager() and a JSON file the
\* application may or may not have written, followed by any calls
InitC == InitEntity /\ file \in {Missing, Malformed, Undecodable, JsonFile(PyList(<< >>))}
         /\ coll = << >> /\ InitDb /\ InitApp
NextC == ConnCreateTables \/ ConnInsert \/ ConnGetAll \/ ConnDelete \/ ConnFile
SpecConn == InitC /\ [][NextC]_vars

\* the entity objects under direct method calls
InitO == /\ InitEntity /\ InitFile /\ InitDb
         /\ students = << >> /\ instructors = << >> /\ disk = NoFiles /\ steps = 0
         /\ heap \in ObjHeaps
         /\ courses \in {<<c>> : c \in ObjCourses}
NextO == \/ ObjRegisterCourse \/ ObjAssignCourse \/ ObjAddInstructor \/ ObjAddStudent
         \/ ObjToDict \/ ObjFromDict
SpecObject == InitO /\ [][NextO]_vars

\* the lists after the add forms have been used and before any registration
\* or assignment: student S1, instructors I1 and I2, courses C1 and C2
FormsStudent == StudentInit(PyStr(sAnn), PyStr(FormAge), PyStr(sEmailA), S1, PyNone).val
FormsInstructor(id) == InstructorInit(PyStr(sAnn), PyStr(FormAge), PyStr(sEmailA), id, PyNone).val
FormsPopulated ==
    [heap |-> <<FormsStudent, FormsInstructor(I1), FormsInstructor(I2)>>,
     students |-> <<1>>, instructors |-> <<2, 3>>,
     courses |-> <<CourseInit(C1, PyStr(sMath), PyNone, PyNone),
                   CourseInit(C2, PyStr(sMath), PyNone, PyNone)>>]

\* the Tk application without its files: the add, edit, delete, register
\* and assign handlers in any order, from the empty lists and from the lists
\* the add forms have filled
InitF == /\ InitEntity /\ InitFile /\ InitDb /\ steps = 0 /\ disk = NoFiles
         /\ \/ /\ students = << >> /\ instructors = << >> /\ courses = << >>
               /\ heap = << >>
            \/ /\ students = FormsPopulated.students
               /\ instructors = FormsPopulated.instructors
               /\ courses = FormsPopulated.courses /\ heap = FormsPopulated.heap
NextF == \/ AddStudent \/ AddInstructor \/ AddCourse
         \/ EditStudent \/ EditInstructor \/ SaveCourse
         \/ DeleteStudent \/ DeleteInstructor \/ DeleteCourse
         \/ Register \/ AssignInstructor
SpecForms == InitF /\ [][NextF]_vars

\* the files of the earlier run with one of them damaged: instructors.json
\* no JSON, courses.json gone, or courses.json holding a course whose
\* enrolled student has a name that is not alphabetic
BadNameCourse ==
    [SessionCourse EXCEPT !.students = <<[SessionStudent EXCEPT !.name = <<"A","1">>]>>]
DamagedFiles ==
    {[SavedFiles EXCEPT ![INSTRUCTORS_FILE] = Malformed],
     [SavedFiles EXCEPT ![COURSES_FILE] = Missing],
     [SavedFiles EXCEPT ![COURSES_FILE] = JsonFile(PyList(<<CourseToDict(BadNameCourse)>>))]}

\* the Tk application started on damaged files: the add forms, Load All and
\* Save All, which writes anew a file it finds missing or not JSON
InitL == /\ InitEntity /\ InitFile /\ InitDb
         /\ students = << >> /\ instructors = << >> /\ courses = << >>
         /\ heap = << >> /\ steps = 0
         /\ disk \in DamagedFiles
NextL == AddStudent \/ AddInstructor \/ AddCourse \/ LoadAll \/ SaveAll
SpecLoad == InitL /\ [][NextL]_vars

\* the Tk application: the handlers of its forms in any order
Init == /\ InitEntity /\ InitFile /\ InitDb
        /\ students = << >> /\ instructors = << >> /\ courses = << >>
        /\ heap = << >> /\ steps = 0
        /\ disk \in {NoFiles, SavedFiles, HandFiles}
Next == \/ AddStudent \/ AddInstructor \/ AddCourse
        \/ EditStudent \/ EditInstructor \/ SaveCourse
        \/ DeleteStudent \/ DeleteInstructor \/ DeleteCourse
        \/ Register \/ AssignInstructor
        \/ SaveAll \/ LoadAll \/ Restart
Spec == Init /\ [][Next]_vars

-----------------------------------------------------------------------------
(* Properties of the Tk application (Spec) *)

\* no two of the ids are the same string once trimmed
NoTwoShareId(ids) ==
    \A i, j \in 1..Len(ids) : i # j => Strip(Str(ids[i])) # Strip(Str(ids[j]))

\* C1: after any sequence of handler runs (add, edit, delete, load-all among
\* them) no two students, no two instructors and no two courses of the
\* in-memory lists have the same identifier, compared as trimmed strings.
C1_UniqueIds ==
    /\ NoTwoShareId(Ids(students))
    /\ NoTwoShareId(Ids(instructors))
    /\ NoTwoShareId(CourseIdsOf(courses))

\* the stored student records whose key is id
StoredUnder(id) ==
    {r \in Range(Existing(disk[STUDENTS_FILE])) : DictGet(r, "student_id") = id}

\* load_all has run with two students in memory, and has dropped the stored
\* record of S1 because a student S1 with other field values was in memory
C1_Witness ==
    /\ last.op = "load_all" /\ last.ret.ok
    /\ Len(students) >= 2
    /\ StoredUnder(S1) # {}
    /\ \E i \in 1..Len(students) :
          /\ heap[students[i]].id = S1
          /\ StudentToDict(heap[students[i]]) \notin StoredUnder(S1)

\* C2: right after a delete of the records tab, the deleted course's id is in
\* no student's registered_courses and in no instructor's assigned_courses,
\* no course has an enrolled student with the deleted student's id, and no
\* course has an instructor with the deleted instructor's id.
C2_DeleteCascades ==
    /\ last.op = "delete_course" =>
          \A r \in Range(students) \cup Range(instructors) :
              last.args[1] \notin Range(heap[r].courses)
    /\ last.op = "delete_student" =>
          \A k \in 1..Len(courses) : \A r \in Range(courses[k].students) :
              heap[r].id # last.args[1]
    /\ last.op = "delete_instructor" =>
          \A k \in 1..Len(courses) : \A r \in Range(courses[k].instructor) :
              heap[r].id # last.args[1]

\* C13: registering a student for a course that is not in the student's
\* registered_courses, whatever else is in it, completes and leaves the
\* course's id in student.registered_courses and the student in
\* course.enrolled_students.
C13_RegisterCompletes ==
    [][\A si \in 1..Len(students), ci \in 1..Len(courses) :
          (/\ last'.op = "register" /\ last'.args = <<si, ci>>
           /\ courses[ci].id \notin Range(heap[students[si]].courses))
              => /\ last'.ret.ok
                 /\ courses'[ci].id \in Range(heap'[students'[si]].courses)
                 /\ students'[si] \in Range(courses'[ci].students)]_vars

\* C14: an assignment of an instructor to a course that has another
\* instructor, when it is not declined, completes, and afterwards the
\* course's instructor is the instructor assigned and nobody else.
C14_AssignReplaces ==
    [][\A ii \in 1..Len(instructors), ci \in 1..Len(courses) :
          (/\ last'.op = "assign_instructor" /\ last'.args = <<ii, ci, TRUE>>
           /\ last'.ret # Rejected
           /\ courses[ci].instructor # << >>
           /\ heap[courses[ci].instructor[1]].id # heap[instructors[ii]].id)
              => /\ last'.ret.ok
                 /\ courses'[ci].instructor = <<instructors'[ii]>>]_vars

\* an assignment has completed on a course that another instructor, who
\* still lists the course, had been assigned to (the handler asked whether
\* to replace)
C14_Witness ==
    /\ last.op = "assign_instructor" /\ last.ret.ok
    /\ \E ii \in 1..Len(instructors), ci \in 1..Len(courses) :
          /\ last.args = <<ii, ci, TRUE>>
          /\ courses[ci].instructor = <<instructors[ii]>>
          /\ \E jj \in 1..Len(instructors) :
                /\ heap[instructors[jj]].id # heap[instructors[ii]].id
                /\ courses[ci].id \in Range(heap[instructors[jj]].courses)

\* loaded is merged into the list that held the entities before and holds
\* the entities after: the list keeps its entities unchanged and in place;
\* a loaded entity whose id the list held is not appended; of the loaded
\* entities with one other id the first, and only it, is appended; and the
\* entities appended are in the order in which they were loaded
MergedFirstWins(before, after, loaded) ==
    LET added == SubSeq(after, Len(before) + 1, Len(after))
        HeldIds == {before[i].id : i \in 1..Len(before)}
        First(id) == CHOOSE k \in 1..Len(loaded) :
                         loaded[k].id = id /\ \A m \in 1..(k - 1) : loaded[m].id # id
        At(id) == {a \in 1..Len(added) : added[a].id = id}
    IN  /\ Len(after) >= Len(before)
        /\ SubSeq(after, 1, Len(before)) = before
        /\ \A a \in 1..Len(added) :
              /\ added[a].id \notin HeldIds
              /\ \E k \in 1..Len(loaded) : loaded[k].id = added[a].id
              /\ added[a] = loaded[First(added[a].id)]
              /\ \A b \in 1..(a - 1) : First(added[b].id) < First(added[a].id)
        /\ \A k \in 1..Len(loaded) :
              Cardinality(At(loaded[k].id)) = IF loaded[k].id \in HeldIds THEN 0 ELSE 1

\* the entities a list of references stands for
Entities(refs, h) == [i \in 1..Len(refs) |-> h[refs[i]]]

\* the courses with the objects they refer to
CourseEntities(cs, h) ==
    [k \in 1..Len(cs) |->
        [cs[k] EXCEPT !.instructor = Entities(cs[k].instructor, h),
                      !.students = Entities(cs[k].students, h)]]

\* C19: a load_all that completes merges the entities of the three files
\* into the three lists, first-loaded-wins: an entity whose id is in the list
\* or earlier in the file is dropped and the entity in memory stays as it
\* is, every other entity is appended; a load_all right after a load_all
\* adds nothing.
C19_LoadMerges ==
    [][(last'.op = "load_all" /\ last'.ret.ok /\ steps' = steps + 1)
          => /\ MergedFirstWins(Entities(students, heap), Entities(students', heap'),
                                LoadedStudents(load_json(disk[STUDENTS_FILE]).val).val)
             /\ MergedFirstWins(Entities(instructors, heap), Entities(instructors', heap'),
                                LoadedInstructors(load_json(disk[INSTRUCTORS_FILE]).val).val)
             /\ MergedFirstWins(CourseEntities(courses, heap), CourseEntities(courses', heap'),
                                LoadedCourses(load_json(disk[COURSES_FILE]).val).val)
             /\ (last.op = "load_all" /\ last.ret.ok)
                   => /\ students' = students /\ instructors' = instructors
                      /\ courses' = courses]_vars

\* a load has kept the instructor I1 that was in memory, who has no course,
\* over the I1 of the file, who has one, and has appended the I2 of the file
C19_Witness ==
    /\ last.op = "load_all" /\ last.ret.ok
    /\ \E rec \in Range(Existing(disk[INSTRUCTORS_FILE])) :
          /\ DictGet(rec, "instructor_id") = I1
          /\ DictGet(rec, "assigned_courses") = PyList(<<C1>>)
    /\ Len(instructors) = 2
    /\ heap[instructors[1]].id = I1 /\ heap[instructors[1]].courses = << >>
    /\ heap[instructors[2]].id = I2

\* seq with every element old replaced by new
Renamed(seq, old, new) == [i \in 1..Len(seq) |-> IF seq[i] = old THEN new ELSE seq[i]]

\* C24: a run of save_course that changes the id of a course which some
\* student or instructor lists completes, and afterwards every
\* registered_courses and assigned_courses list holds the new id where it held
\* the old one, so that no list holds the old id.
C24_RenameCascades ==
    [][\A c \in 1..Len(courses) :
          (/\ last'.op = "save_course" /\ last'.ret # Rejected
           /\ Len(courses') = Len(courses) /\ courses'[c].id # courses[c].id
           /\ \E r \in Range(students) \cup Range(instructors) :
                 courses[c].id \in Range(heap[r].courses))
              => /\ last'.ret.ok
                 /\ \A r \in Range(students) \cup Range(instructors) :
                       /\ heap'[r].courses
                             = Renamed(heap[r].courses, courses[c].id, courses'[c].id)
                       /\ courses[c].id \notin Range(heap'[r].courses)]_vars

\* the file holds an array of records that all have the field key_field
ArrayOfKeyed(f, key_field) ==
    /\ f.st = "json" /\ Tag(f.val) = "list"
    /\ \A i \in 1..Len(f.val[2]) :
          Tag(f.val[2][i]) = "dict" /\ DictHas(f.val[2][i], key_field)

\* the keys of the records of such a file
KeysIn(f, key_field) == {Str(DictAt(rec, key_field)) : rec \in Range(Existing(f))}

\* the keys under which save_data stores the entities es
KeysFrom(es) == {Str(es[i].id) : i \in 1..Len(es)} \ {<< >>}

\* save_data has added the keys of the entities es to the keys of the file
KeysKept(before, after, key_field, es) ==
    ArrayOfKeyed(before, key_field)
        => /\ ArrayOfKeyed(after, key_field)
           /\ KeysIn(after, key_field) = KeysIn(before, key_field) \cup KeysFrom(es)

\* every record of the file has its id among ids
AllLoaded(f, key_field, ids) ==
    \A rec \in Range(Existing(f)) : DictAt(rec, key_field) \in Range(ids)

\* C28: a save_all that completes leaves in each file that held an array of
\* keyed records the keys it held together with the keys of the entities in
\* memory, and removes none; so the record of an entity deleted from memory
\* stays in the file, and a load_all that completes afterwards has every
\* stored id in memory again.
C28_SaveKeepsKeys ==
    [][/\ (last'.op = "save_all" /\ last'.ret.ok)
            => /\ KeysKept(disk[STUDENTS_FILE], disk'[STUDENTS_FILE], "student_id",
                           Entities(students, heap))
               /\ KeysKept(disk[INSTRUCTORS_FILE], disk'[INSTRUCTORS_FILE], "instructor_id",
                           Entities(instructors, heap))
               /\ KeysKept(disk[COURSES_FILE], disk'[COURSES_FILE], "course_id", courses)
       /\ (last'.op = "load_all" /\ last'.ret.ok)
            => /\ AllLoaded(disk[STUDENTS_FILE], "student_id", Ids(students)')
               /\ AllLoaded(disk[INSTRUCTORS_FILE], "instructor_id", Ids(instructors)')
               /\ AllLoaded(disk[COURSES_FILE], "course_id", CourseIdsOf(courses'))]_vars

\* save_all has run after student S1 was loaded and deleted: no student is
\* in memory (the loaded course still holds its own S1), and the students
\* file still holds the record of S1
C28_Witness ==
    /\ last.op = "save_all" /\ last.ret.ok
    /\ students = << >>
    /\ \E c \in 1..Len(courses) : \E r \in Range(courses[c].students) : heap[r].id = S1
    /\ S1[2] \in KeysIn(disk[STUDENTS_FILE], "student_id")

\* C30: after a load_all into empty lists of files that save_all wrote, every
\* student enrolled in a loaded course is the object of the students list
\* that has the student's id, not a copy of it.
C30_LoadedSameEntity ==
    [][(/\ last'.op = "load_all" /\ last'.ret.ok
        /\ students = << >> /\ instructors = << >> /\ courses = << >>)
          => \A c \in 1..Len(courses') : \A r \in Range(courses'[c].students) :
                \E i \in 1..Len(students') :
                    /\ heap'[students'[i]].id = heap'[r].id
                    /\ students'[i] = r]_vars

-----------------------------------------------------------------------------
(* Properties of Load All on damaged files (SpecLoad) *)

\* the file cannot be read as JSON, or build raises for what it holds
Unloadable(f, build(_)) == ~load_json(f).ok \/ ~build(load_json(f).val).ok

\* C29: when one of the three files is missing or is not JSON, or a stored
\* record cannot be turned into an entity, load_all reports the error and
\* leaves the students, instructors and courses lists, and every object in
\* them, exactly as they were.
C29_LoadAllOrNothing ==
    [][(/\ last'.op = "load_all" /\ steps' = steps + 1
        /\ \/ Unloadable(disk[STUDENTS_FILE], LoadedStudents)
           \/ Unloadable(disk[INSTRUCTORS_FILE], LoadedInstructors)
           \/ Unloadable(disk[COURSES_FILE], LoadedCourses))
          => /\ ~last'.ret.ok
             /\ students' = students /\ instructors' = instructors
             /\ courses' = courses /\ heap' = heap]_vars

\* load_all has failed with an entity in memory while the students file was
\* readable and held a student that is not in memory
C29_Witness ==
    /\ last.op = "load_all" /\ ~last.ret.ok
    /\ Len(instructors) + Len(courses) >= 1
    /\ ~Unloadable(disk[STUDENTS_FILE], LoadedStudents)
    /\ \E rec \in Range(Existing(disk[STUDENTS_FILE])) :
          DictAt(rec, "student_id") \notin Range(Ids(students))

-----------------------------------------------------------------------------
(* Properties of the Tk application without its files (SpecForms) *)

\* C25: after any assign, delete-instructor and delete-course handler runs, a
\* course's id is in an instructor's assigned_courses exactly when that
\* instructor is the course's instructor.
C25_AssignedIffInstructor ==
    \A i \in 1..Len(instructors), c \in 1..Len(courses) :
        courses[c].id \in Range(heap[instructors[i]].courses)
            <=> courses[c].instructor = <<instructors[i]>>

\* C26: after any register, delete-student, delete-course and edit handler
\* runs from the empty lists, a course's id is in a student's
\* registered_courses exactly when that student is among the course's
\* enrolled_students.
C26_RegisteredIffEnrolled ==
    \A i \in 1..Len(students), c \in 1..Len(courses) :
        courses[c].id \in Range(heap[students[i]].courses)
            <=> students[i] \in Range(courses[c].students)

-----------------------------------------------------------------------------
(* Properties of the entity objects (SpecObject) *)

\* the courses whose to_dict() is the mapping d
CoursesOf(d) == {k \in 1..Len(courses) : CourseToDict(Deref(courses[k])) = d}

\* C11: Course.from_dict(c.to_dict()) returns a course with c's course_id and
\* course_name, an instructor with the field values of c's instructor (none
\* when c has none) and enrolled students with the field values of c's, in
\* the same order.
C11_CourseRoundTrip ==
    (last.op = "Course.from_dict" /\ last.done)
        => \A k \in CoursesOf(last.args[1]) :
               /\ last.ret.ok
               /\ last.ret.val.id = courses[k].id
               /\ last.ret.val.name = courses[k].name
               /\ last.ret.val.instructor = Deref(courses[k]).instructor
               /\ last.ret.val.students = Deref(courses[k]).students

\* the name, age and email of x pass the validators
ValidFields(x) ==
    /\ validate_name(PyStr(x.name)).ok
    /\ validate_age(PyInt(x.age)).ok
    /\ validate_email(PyStr(x.email)).ok

\* C12: for a Student or Instructor x with valid name, age and email, any id
\* and any course list, from_dict(x.to_dict()) succeeds and has the name,
\* age, email, id and course-id list of x.
C12_PersonRoundTrip ==
    (last.op \in {"Student.from_dict", "Instructor.from_dict"} /\ last.done)
        => \A r \in DOMAIN heap :
               (ToDict(heap[r]) = last.args[1] /\ ValidFields(heap[r]))
                   => /\ last.ret.ok
                      /\ last.ret.val.name = heap[r].name
                      /\ last.ret.val.age = heap[r].age
                      /\ last.ret.val.email = heap[r].email
                      /\ last.ret.val.id = heap[r].id
                      /\ last.ret.val.courses = heap[r].courses

\* a student with an empty id and one registered course has been written to a
\* mapping and read back
C12_Witness ==
    /\ last.op = "Student.from_dict" /\ last.done /\ last.ret.ok
    /\ \E r \in StudentRefs : ToDict(heap[r]) = last.args[1] /\ ValidFields(heap[r])
    /\ last.ret.val.id = PyStr(<< >>)
    /\ last.ret.val.courses = <<C1>>

\* the list a call of register_course, assign_course or add_student works
\* on, among the objects h and the courses cs
ListOf(call, h, cs) ==
    IF call.op = "Course.add_student" THEN cs[call.args[1]].students
    ELSE h[call.args[1]].courses

\* the entry the call is to add: the student, or the course's id
EntryOf(call) ==
    IF call.op = "Course.add_student" THEN call.args[2][2]
    ELSE courses[call.args[2]].id

IsListCall(call) ==
    /\ call.op \in {"Student.register_course", "Instructor.assign_course", "Course.add_student"}
    /\ call.ret.ok

\* C15: register_course, assign_course and add_student keep the entries of
\* the list in their order and add the entry at the end only when the list
\* does not hold it; a second call with the same course (the same student)
\* leaves the list as the first call left it.
C15_Idempotent ==
    [][(IsListCall(last') /\ steps' = steps + 1)
          => /\ \/ ListOf(last', heap', courses') = ListOf(last', heap, courses)
                \/ /\ EntryOf(last') \notin Range(ListOf(last', heap, courses))
                   /\ ListOf(last', heap', courses')
                          = Append(ListOf(last', heap, courses), EntryOf(last'))
             /\ EntryOf(last') \in Range(ListOf(last', heap', courses'))
             /\ last'.again => ListOf(last', heap', courses') = ListOf(last', heap, courses)]_vars

\* the same call has been made twice in a row on a list of two entries
C15_Witness ==
    /\ IsListCall(last) /\ last.again
    /\ Len(ListOf(last, heap, courses)) = 2
    /\ ListOf(last, heap, courses)[2] = EntryOf(last)

\* the call hands a method of Course an argument that is not of the class
\* the method takes
WrongKind(call) ==
    \/ call.op = "Course.add_instructor" /\ ~IsInstance(call.args[2], "Instructor")
    \/ call.op = "Course.add_student" /\ ~IsInstance(call.args[2], "Student")

\* C16: Course.add_instructor with a value that is not an Instructor and
\* Course.add_student with a value that is not a Student raise the error the
\* methods have for it (ValueError) and leave the course's instructor and
\* enrolled_students as they were.
C16_WrongKindRejected ==
    [][(WrongKind(last') /\ steps' = steps + 1)
          => /\ ~last'.ret.ok /\ last'.ret.exc = "ValueError"
             /\ courses' = courses]_vars

\* add_student has been handed the instructor, add_instructor a student or a
\* string, on a course that has students
C16_Witness ==
    /\ WrongKind(last) /\ ~last.ret.ok
    /\ last.args[2][1] = "ref"
    /\ courses[last.args[1]].students # << >>

-----------------------------------------------------------------------------
(* Properties of the relational store (SpecDb) *)

IsCall(op) == last.op = op /\ last.done

\* the rows of a table that do not carry value v in column col
OtherRows(rows, col, v) == LET Other(r) == r[col] # v IN SelectSeq(rows, Other)

\* bag after holds exactly what bag before held in rows not carrying v in col
OnlyLinksGone(before, after, col, v) ==
    /\ \A r \in BagToSet(after) : r[col] # v
    /\ \A r \in BagToSet(before) : r[col] # v => CopiesIn(r, after) = CopiesIn(r, before)
    /\ BagToSet(after) \subseteq BagToSet(before)

\* C3: after delete_student(id) the students row and every student_courses
\* row of id are gone; after delete_instructor(id) likewise for instructors
\* and instructor_courses; after delete_course(id) the courses row and the
\* rows of id in both association tables are gone; every other row of every
\* table is as it was.
C3_DeleteCascades ==
    [][ /\ last'.op = "delete_student" =>
             /\ db'.students = OtherRows(db.students, 1, last'.args[1])
             /\ OnlyLinksGone(db.student_courses, db'.student_courses, 1, last'.args[1])
             /\ db'.instructors = db.instructors /\ db'.courses = db.courses
             /\ db'.instructor_courses = db.instructor_courses
        /\ last'.op = "delete_instructor" =>
             /\ db'.instructors = OtherRows(db.instructors, 1, last'.args[1])
             /\ OnlyLinksGone(db.instructor_courses, db'.instructor_courses, 1, last'.args[1])
             /\ db'.students = db.students /\ db'.courses = db.courses
             /\ db'.student_courses = db.student_courses
        /\ last'.op = "delete_course" =>
             /\ db'.courses = OtherRows(db.courses, 1, last'.args[1])
             /\ OnlyLinksGone(db.student_courses, db'.student_courses, 2, last'.args[1])
             /\ OnlyLinksGone(db.instructor_courses, db'.instructor_courses, 2, last'.args[1])
             /\ db'.students = db.students /\ db'.instructors = db.instructors
      ]_vars

\* a student was deleted while another student, with a registration, stays
C3_Witness ==
    /\ IsCall("delete_student") /\ last.args[1] = S1
    /\ \E i \in 1..Len(db.students) : db.students[i][1] = S2
    /\ BagIn(<<S2, C1>>, db.student_courses)

\* the table already holds a row with this primary key, or this email
HasKey(rows, key) == \E i \in 1..Len(rows) : rows[i][1] = key
HasEmail(rows, email) == \E i \in 1..Len(rows) : rows[i][4] = email

\* C7: add_student / add_instructor with an id or an email the table already
\* holds, and add_course with an id the table already holds, raise the
\* duplicate-key ValueError and leave every table as it was.
C7_DuplicateKeyRejected ==
    [][ /\ ( /\ last'.op = "add_student"
             /\ \/ HasKey(db.students, last'.args[1].id)
                \/ HasEmail(db.students, PyStr(last'.args[1].email)) )
           => ~last'.ret.ok /\ last'.ret.exc = "ValueError" /\ db' = db
        /\ ( /\ last'.op = "add_instructor"
             /\ \/ HasKey(db.instructors, last'.args[1].id)
                \/ HasEmail(db.instructors, PyStr(last'.args[1].email)) )
           => ~last'.ret.ok /\ last'.ret.exc = "ValueError" /\ db' = db
        /\ (last'.op = "add_course" /\ HasKey(db.courses, last'.args[1].id))
           => ~last'.ret.ok /\ last'.ret.exc = "ValueError" /\ db' = db
      ]_vars

\* add_student was refused for an email held by a student with another id
C7_Witness ==
    /\ IsCall("add_student") /\ ~last.ret.ok
    /\ ~HasKey(db.students, last.args[1].id)
    /\ HasEmail(db.students, PyStr(last.args[1].email))

\* one more copy of row, nothing else changed
OneRowAdded(before, after, row) ==
    /\ CopiesIn(row, after) = CopiesIn(row, before) + 1
    /\ \A r \in BagToSet(before) \cup BagToSet(after) :
          r # row => CopiesIn(r, after) = CopiesIn(r, before)

\* C8: register_student_course / assign_instructor_course add exactly one row
\* when the pair is absent, raise the duplicate-assignment ValueError and
\* change nothing when it is present, and no association table ever holds a
\* pair twice.
C8_AssociationOnce ==
    /\ [](\A r \in BagToSet(db.student_courses) : CopiesIn(r, db.student_courses) = 1)
    /\ [](\A r \in BagToSet(db.instructor_courses) : CopiesIn(r, db.instructor_courses) = 1)
    /\ [][ /\ last'.op = "register_student_course" =>
                IF BagIn(last'.args, db.student_courses)
                THEN ~last'.ret.ok /\ last'.ret.exc = "ValueError" /\ db' = db
                ELSE /\ last'.ret.ok
                     /\ OneRowAdded(db.student_courses, db'.student_courses, last'.args)
                     /\ db'.instructor_courses = db.instructor_courses
           /\ last'.op = "assign_instructor_course" =>
                IF BagIn(last'.args, db.instructor_courses)
                THEN ~last'.ret.ok /\ last'.ret.exc = "ValueError" /\ db' = db
                ELSE /\ last'.ret.ok
                     /\ OneRowAdded(db.instructor_courses, db'.instructor_courses, last'.args)
                     /\ db'.student_courses = db.student_courses
         ]_vars

\* a registration was refused because the table already holds the pair
C8_Witness ==
    /\ IsCall("register_student_course") /\ ~last.ret.ok
    /\ BagIn(last.args, db.student_courses)
    /\ BagCardinality(db.student_courses) >= 2

\* people is one entity per row of rows, in row order, each with the row's
\* id, name, age and email and an empty course list
PeopleOfRows(people, rows, kind) ==
    /\ Len(people) = Len(rows)
    /\ \A i \in 1..Len(rows) :
          /\ people[i].kind = kind
          /\ people[i].id = rows[i][1]
          /\ PyStr(people[i].name) = rows[i][2]
          /\ PyInt(people[i].age) = rows[i][3]
          /\ PyStr(people[i].email) = rows[i][4]
          /\ people[i].courses = << >>

\* C20: get_all_students, get_all_instructors and get_all_courses return one
\* entity per stored row, with the row's id, name, age and email (for a
\* course its id and name), and with empty association lists whatever the
\* association tables hold.
C20_GetAllMapsRows ==
    /\ IsCall("get_all_students")
          => last.ret.ok /\ PeopleOfRows(last.ret.val, db.students, "Student")
    /\ IsCall("get_all_instructors")
          => last.ret.ok /\ PeopleOfRows(last.ret.val, db.instructors, "Instructor")
    /\ IsCall("get_all_courses")
          => /\ last.ret.ok
             /\ Len(last.ret.val) = Len(db.courses)
             /\ \A i \in 1..Len(db.courses) :
                   /\ last.ret.val[i].id = db.courses[i][1]
                   /\ last.ret.val[i].name = db.courses[i][2]
                   /\ last.ret.val[i].instructor = << >>
                   /\ last.ret.val[i].students = << >>

\* two students have been read back while one of them has a registration row
C20_Witness ==
    /\ IsCall("get_all_students") /\ last.ret.ok
    /\ Len(db.students) = 2
    /\ \E c \in DbCourseIds : BagIn(<<db.students[2][1], c>>, db.student_courses)

-----------------------------------------------------------------------------
(* Properties of the connections and file handles (SpecConn) *)

\* C21: after any DatabaseManager or DataManager call has ended, by a return
\* or by an exception, a storage error raised by a statement among them, no
\* connection and no file handle the call opened is still open.
C21_Released == last.done => conns = {}

\* the values column 1 of a table holds
KeysOf(rows) == {rows[i][1] : i \in 1..Len(rows)}

\* C27: after any add_*, delete_*, register_student_course and
\* assign_instructor_course calls, every student_courses row names a student
\* of students and a course of courses, and every instructor_courses row
\* names an instructor of instructors and a course of courses.
C27_ReferencesExist ==
    /\ \A r \in BagToSet(db.student_courses) :
          r[1] \in KeysOf(db.students) /\ r[2] \in KeysOf(db.courses)
    /\ \A r \in BagToSet(db.instructor_courses) :
          r[1] \in KeysOf(db.instructors) /\ r[2] \in KeysOf(db.courses)

-----------------------------------------------------------------------------
(* Properties of the validators (SpecValidators) *)

\* the positions of ids, other than those of the object exclude, whose id
\* matches the candidate; trimmed tells whether the stored id is trimmed too
Clashes(call, trimmed) ==
    {i \in (1..Len(call.args[2])) \ call.args[3] :
        (IF trimmed THEN Strip(Str(call.args[2][i])) ELSE Str(call.args[2][i]))
            = Strip(Str(call.args[1]))}

-----------------------------------------------------------------------------
(* Properties of the entity model (SpecEntity) *)

IsConstructor == last.done /\ last.op \in {"Person", "Student", "Instructor"}

\* C9: a constructor given an invalid name, age or email raises, so every
\* entity it returns holds a name, age and email that pass their validators.
C9_ConstructorValidates ==
    IsConstructor =>
        /\ ( \/ ~validate_name(last.args[1]).ok
             \/ ~validate_age(last.args[2]).ok
             \/ ~validate_email(last.args[3]).ok ) => ~last.ret.ok
        /\ last.ret.ok => /\ validate_name(PyStr(last.ret.val.name)).ok
                          /\ validate_age(PyInt(last.ret.val.age)).ok
                          /\ validate_email(PyStr(last.ret.val.email)).ok

\* the integers the value a converts to by int(): one, or none
IntegersOf(a) ==
    CASE Tag(a) = "int" -> {a[2]}
      [] Tag(a) = "str" -> {ParseInt(a[2]).n : ok \in {TRUE} \cap {ParseInt(a[2]).ok}}
      [] OTHER -> {}

\* C22: a constructor given a valid email returns an entity exactly
\* when its age argument converts to an integer in 1..120, and the entity
\* then holds that integer as its age; with any other age (0, 121, text that
\* is no number, nothing) it raises the validation error (ValueError).
C22_AgeRange ==
    IsConstructor =>
        /\ last.ret.ok => IntegersOf(last.args[2]) = {last.ret.val.age}
                          /\ last.ret.val.age \in 1..120
        /\ (IntegersOf(last.args[2]) \cap (1..120) # {} /\ validate_email(last.args[3]).ok)
              => last.ret.ok
        /\ IntegersOf(last.args[2]) \cap (1..120) = {}
              => ~last.ret.ok /\ last.ret.exc = "ValueError"
                 /\ last.ret.msg \in {"Age cannot be empty", "Age must be a number.",
                                      "Age must be between 1 and 120."}

\* a student has been constructed with the age 120
C22_Witness ==
    /\ IsConstructor /\ last.op = "Student"
    /\ last.args[2] = PyInt(120)
    /\ last.ret.ok /\ last.ret.val.age = 120

IsFromDict == last.done /\ last.op \in {"Student.from_dict", "Instructor.from_dict"}

\* the messages of the rules a mapping violates
Violations(d, idKey) ==
    (IF Tag(DictGet(d, "name")) = "none" THEN {"Name is required", "Name cannot be empty"}
     ELSE IF ~validate_name(DictAt(d, "name")).ok THEN {validate_name(DictAt(d, "name")).msg}
     ELSE {})
    \cup
    (IF Tag(DictGet(d, "age")) = "none" THEN {"Age is required", "Age cannot be empty"}
     ELSE IF ~validate_age(DictAt(d, "age")).ok THEN {validate_age(DictAt(d, "age")).msg}
     ELSE {})
    \cup
    (IF Tag(DictGet(d, "email")) = "none" THEN {"Email is required", "Email cannot be empty"}
     ELSE IF ~validate_email(DictAt(d, "email")).ok THEN {validate_email(DictAt(d, "email")).msg}
     ELSE {})
    \cup
    (IF ~DictHas(d, idKey) THEN {"Student ID is required", "Instructor ID is required"}
     ELSE {})

IdKeyOf(op) == IF op = "Student.from_dict" THEN "student_id" ELSE "instructor_id"

\* C10: from_dict given a mapping that violates a rule raises the validation
\* error of a violated rule, and returns no entity.
C10_FromDictPropagates ==
    (IsFromDict /\ Violations(last.args[1], IdKeyOf(last.op)) # {}) =>
        /\ ~last.ret.ok
        /\ last.ret.exc = "ValueError"
        /\ last.ret.msg \in Violations(last.args[1], IdKeyOf(last.op))

-----------------------------------------------------------------------------
(* Properties of save_data (SpecSave) *)

SaveKey == "student_id"

IsKeyed(item) == Tag(item) = "dict" /\ DictHas(item, SaveKey)

KeyOf(item) == Str(DictAt(item, SaveKey))

\* the file holds an array of keyed records, no two with the same key
KeyedRecords(f) ==
    /\ f.st = "json" /\ Tag(f.val) = "list"
    /\ \A i \in 1..Len(f.val[2]) : IsKeyed(f.val[2][i])
    /\ \A i, j \in 1..Len(f.val[2]) : KeyOf(f.val[2][i]) = KeyOf(f.val[2][j]) => i = j

\* the objects of the collection that save_data serialises
Incoming == {j \in 1..Len(coll) : coll[j].kind # "None" /\ Str(coll[j].id) # << >>}

\* record has a field that stored lacks or holds with another value
Changes(record, stored) ==
    \E f \in Keys(record) : ~DictHas(stored, f) \/ DictAt(stored, f) # DictAt(record, f)

\* C4: when save_data runs on a file of keyed records, every stored record
\* other than those of incoming entities that changed is afterwards the
\* same record (fields, values, order of fields) at the same position,
\* whether or not its key is in the collection.
C4_SaveFrame ==
    [][ (last'.op = "save_data" /\ KeyedRecords(file)) =>
          /\ Len(Existing(file')) >= Len(Existing(file))
          /\ \A i \in 1..Len(Existing(file)) :
                (~\E j \in Incoming :
                      /\ Str(coll[j].id) = KeyOf(Existing(file)[i])
                      /\ Changes(ToDict(coll[j]), Existing(file)[i]))
                => Existing(file')[i] = Existing(file)[i]
      ]_vars

\* a save has updated one stored record (the note record now carries the
\* incoming name) next to a stored record whose key no incoming entity has
C4_Witness ==
    /\ IsCall("save_data") /\ KeyedRecords(file)
    /\ \E i \in 1..Len(Existing(file)) :
          /\ DictHas(Existing(file)[i], "note")
          /\ DictAt(Existing(file)[i], "name") = PyStr(sAnn)
    /\ \E i \in 1..Len(Existing(file)) :
          \A j \in Incoming : Str(coll[j].id) # KeyOf(Existing(file)[i])

\* C5: saving the same collection again leaves the file as the first save
\* left it, whatever the file held before the first save.
C5_SaveIdempotent ==
    IsCall("save_data") => save_data(file, coll, SaveKey) = file

\* a save of two entities into a file that already held records
C5_Witness ==
    /\ IsCall("save_data") /\ Cardinality(Incoming) = 2
    /\ Len(Existing(file)) >= 2
    /\ \E i \in 1..Len(Existing(file)) : DictHas(Existing(file)[i], "note")

\* the positions of the keyed records with key k among items
Holding(items, k) == {i \in 1..Len(items) : IsKeyed(items[i]) /\ KeyOf(items[i]) = k}

SetMax(S) == CHOOSE x \in S : \A y \in S : y <= x

\* C6: after save_data has returned, each incoming entity has exactly one
\* record under its stringified key; the record holds every field of the incoming
\* serialisation with the incoming value; if the file held no record with
\* that key it holds nothing else, otherwise it also holds every field of
\* the stored record, with the stored value where the incoming
\* serialisation has no such field.
C6_MergePerKey ==
    [][ (last'.op = "save_data" /\ last'.ret.ok) =>
          \A j \in Incoming :
             LET k == Str(coll[j].id)
                 rec == ToDict(coll[SetMax({m \in Incoming : Str(coll[m].id) = k})])
                 was == Holding(Existing(file), k)
                 now == Holding(Existing(file'), k)
             IN  /\ Cardinality(now) = 1
                 /\ LET r == Existing(file')[SetMax(now)]
                    IN  /\ \A f \in Keys(rec) : DictHas(r, f) /\ DictAt(r, f) = DictAt(rec, f)
                        /\ was = {} => Keys(r) = Keys(rec)
                        /\ was # {} =>
                             LET stored == Existing(file)[SetMax(was)]
                             IN  /\ Keys(r) = Keys(stored) \cup Keys(rec)
                                 /\ \A f \in Keys(stored) \ Keys(rec) :
                                       DictAt(r, f) = DictAt(stored, f)
      ]_vars

\* a stored record was merged with an incoming entity: it keeps its note
\* and has gained the entity's age
C6_Witness ==
    /\ IsCall("save_data")
    /\ \E i \in 1..Len(Existing(file)) :
          /\ DictHas(Existing(file)[i], "note") /\ DictHas(Existing(file)[i], "age")
          /\ DictAt(Existing(file)[i], "name") = PyStr(sAnn)
    /\ \E i \in 1..Len(Existing(file)) : ~DictHas(Existing(file)[i], "note")

\* the file holds no JSON array: it is missing, or is not JSON, or its JSON
\* value is not an array
NoArray(f) == f.st # "json" \/ Tag(f.val) # "list"

\* C17: save_data on a file that is missing, is not valid JSON or holds a
\* JSON value that is not an array returns without an exception, and the
\* file afterwards is an array that holds one record per key of the incoming
\* entities, each the serialisation of an incoming entity, and nothing else.
C17_SaveOverNoArray ==
    [][ (last'.op = "save_data" /\ NoArray(file)) =>
          /\ last'.ret.ok
          /\ ~NoArray(file')
          /\ \A i \in 1..Len(Existing(file')) :
                \E j \in Incoming : Existing(file')[i] = ToDict(coll[j])
          /\ \A j \in Incoming :
                Cardinality(Holding(Existing(file'), Str(coll[j].id))) = 1
      ]_vars

\* C18: load_json raises the not-found error when the file does not exist
\* and a malformed-content error when it does not hold valid JSON; otherwise
\* it returns the value the file holds, whatever its type; and it never
\* changes the file.
C18_LoadJson ==
    [][ last'.op = "load_json" =>
          /\ file' = file
          /\ file.st = "missing"
                => ~last'.ret.ok /\ last'.ret.exc = "FileNotFoundError"
          /\ file.st \in {"malformed", "undecodable"}
                => ~last'.ret.ok /\ last'.ret.exc \in {"JSONDecodeError", "UnicodeDecodeError"}
          /\ file.st = "json" => last'.ret = Ok(file.val)
      ]_vars

\* a file that holds a JSON object, not an array, has been loaded and the
\* object returned
C18_Witness ==
    /\ IsCall("load_json") /\ last.ret.ok
    /\ file.st = "json" /\ Tag(file.val) = "dict"
    /\ last.ret.val = file.val

====
